---- MODULE Spec2Model ----
(***************************************************************************)
(* Model of the promoteur-v1 edge function (src/unnamed/part_006): the    *)
(* development-feasibility engine.  One invocation of the HTTP handler is *)
(* a state machine whose steps are the stretches of code between two      *)
(* awaits; the collaborators (cadastre, PLU ruleset, promoteur profile,   *)
(* DVF) answer nondeterministically.                                      *)
(*                                                                         *)
(* Numbers.  JavaScript numbers are modelled as exact fixed-point         *)
(* integers (floating-point representation error is not modelled):        *)
(*   surfaces            centi-m2   (1 m2  = 100)                         *)
(*   ratios / percents   percent    (0.6   = 60, 12 % = 12)               *)
(*   heights, setbacks   decimetres (15 m  = 150)                         *)
(*   prices              euros per m2                                     *)
(*   revenue (CA)        cents      (1 EUR = 100)                         *)
(*   costs, land values  1e-4 EUR   (1 EUR = 10000)                       *)
(* A value of type number|null is an integer or NULL.                     *)
(***************************************************************************)
EXTENDS Integers, Sequences, FiniteSets, TLC

\* ---------------------------------------------------------------------
\* Bounds of the model
\* ---------------------------------------------------------------------
\* largest terrain surface a request or the cadastre carries, in m2
MaxSurfaceM2 == 4
\* number of DVF rows in the largest comparables answer
MaxDvfRows == 31

\* the null / undefined number
NULL == -2000000000

\* ---------------------------------------------------------------------
\* JSON values (request overrides, profile params, rulesets)
\* ---------------------------------------------------------------------
Null == [t |-> "null", v |-> 0, f |-> <<>>]
Num(n) == [t |-> "num", v |-> n, f |-> <<>>]
Obj(g) == [t |-> "obj", v |-> 0, f |-> g]
\* number|null -> JSON
J(n) == IF n = NULL THEN Null ELSE Num(n)

\* o?.key
Get(o, key) ==
  IF o.t = "obj" /\ key \in DOMAIN o.f THEN o.f[key] ELSE Null

\* JavaScript truthiness of a JSON value
Truthy(j) == j.t = "obj" \/ (j.t = "num" /\ j.v # 0)

\* ---------------------------------------------------------------------
\* Helpers
\* ---------------------------------------------------------------------
safeNumber(value, fallback) ==
  IF value.t = "num" THEN value.v ELSE fallback

\* value ?? dflt
Coalesce(value, dflt) == IF value = NULL THEN dflt ELSE value

\* Math.round(num / den) for den > 0: floor(num/den + 1/2)
RoundQuot(num, den) ==
  LET q == num \div den
      r == num % den
  IN  IF r >= den - r THEN q + 1 ELSE q

\* round(value, decimals): value is given in units of 1/scale of the
\* unit it is rounded to (decimals is carried by the scale)
round(value, scale) ==
  IF value = NULL THEN NULL ELSE RoundQuot(value, scale)

Min(a, b) == IF a <= b THEN a ELSE b
Max(a, b) == IF a >= b THEN a ELSE b

RECURSIVE deepMerge(_, _)
\* the override's value taken for every key, composite or not
deepMergeShallow(base, override) ==
  IF override.t # "obj" THEN base
  ELSE LET bf == IF base.t = "obj" THEN base.f ELSE <<>>
           keys == (IF base.t = "obj" THEN DOMAIN base.f ELSE {})
                     \cup DOMAIN override.f
       IN  Obj([key \in keys |->
                 IF key \notin DOMAIN override.f THEN bf[key]
                 ELSE override.f[key]])

\* lines 133-151
deepMerge(base, override) ==
  IF override.t # "obj" THEN base
  ELSE LET bf == IF base.t = "obj" THEN base.f ELSE <<>>
           keys == (IF base.t = "obj" THEN DOMAIN base.f ELSE {})
                     \cup DOMAIN override.f
       IN  Obj([key \in keys |->
                 IF key \notin DOMAIN override.f THEN bf[key]
                 ELSE LET b == Get(base, key)
                          o == override.f[key]
                      IN  IF b.t = "obj" /\ o.t = "obj"
                          THEN deepMerge(b, o)
                          ELSE o])

\* ---------------------------------------------------------------------
\* Etude architecturale
\* ---------------------------------------------------------------------
DefaultEmpriseRatio == 60
DefaultHauteurMaxM == 150
hauteurNiveauM == 30
tauxEfficiencesPlans == 85

\* lines 359-360, percent
empriseRatio(ruleset) ==
  Coalesce(safeNumber(Get(Get(ruleset, "emprise_sol"), "max_ratio"), NULL),
           DefaultEmpriseRatio)

\* the absolute cap left out
empriseAutoriseeM2NoCap(surfaceTerrainM2, ruleset) ==
  surfaceTerrainM2 * empriseRatio(ruleset)

\* lines 362-368, in 1e-4 m2 (centi-m2 x percent)
empriseAutoriseeM2(surfaceTerrainM2, ruleset) ==
  LET empriseMaxM2FromRatio == surfaceTerrainM2 * empriseRatio(ruleset)
      empriseMaxM2Fixed ==
        safeNumber(Get(Get(ruleset, "emprise_sol"), "max_m2"), NULL)
  IN  IF empriseMaxM2Fixed # NULL
      THEN Min(empriseMaxM2Fixed * 100, empriseMaxM2FromRatio)
      ELSE empriseMaxM2FromRatio

\* lines 370-371, decimetres
hauteurMaxM(ruleset) ==
  Coalesce(safeNumber(Get(Get(ruleset, "hauteur"), "hauteur_max_m"), NULL),
           DefaultHauteurMaxM)

\* the quotient rounded up instead of down
nbNiveauxPossiblesCeil(ruleset) ==
  Max(1, (hauteurMaxM(ruleset) + hauteurNiveauM - 1) \div hauteurNiveauM)

\* lines 373-377
nbNiveauxPossibles(ruleset) ==
  Max(1, hauteurMaxM(ruleset) \div hauteurNiveauM)

\* the level count made to depend on the scenario tag
computeEtudeArchiByScenario(surfaceTerrainM2, ruleset, projet) ==
  LET emprise == empriseAutoriseeM2(surfaceTerrainM2, ruleset)
      niveaux == IF projet.scenario = "mixte" THEN 1
                 ELSE nbNiveauxPossibles(ruleset)
      \* 1e-6 m2
      surfaceNiveauTypiqueM2 == emprise * tauxEfficiencesPlans
      sdpTotalePotentielleM2 == surfaceNiveauTypiqueM2 * niveaux
      impl == Get(ruleset, "implantation")
  IN  [ surface_terrain_m2 |-> round(surfaceTerrainM2, 1),
        emprise_autorisee_m2 |-> round(emprise, 100),
        retraits |->
          [ rue_m |-> safeNumber(Get(impl, "retrait_rue_m"), 0),
            fond_m |-> safeNumber(Get(impl, "retrait_fond_parcelle_m"), NULL),
            lateraux_m |-> safeNumber(Get(impl, "retrait_lateraux_m"), NULL) ],
        hauteur_max_m |-> hauteurMaxM(ruleset),
        hypotheses |->
          [ hauteur_niveau_m |-> hauteurNiveauM,
            taux_efficiences_plans |-> tauxEfficiencesPlans,
            scenario_projet |->
              IF projet.scenario = "" THEN "logement_seul"
              ELSE projet.scenario ],
        nb_niveaux_possibles |-> niveaux,
        surface_niveau_typique_m2 |-> round(surfaceNiveauTypiqueM2, 10000),
        sdp_totale_potentielle_m2 |-> round(sdpTotalePotentielleM2, 10000),
        \* 1e-6 m2, not rounded
        repartition_fonctions |->
          [ rdc |-> [ type |-> "logement",
                      m2 |-> sdpTotalePotentielleM2 \div niveaux ],
            etages |-> [ type |-> "logement",
                         m2 |-> sdpTotalePotentielleM2
                                  - sdpTotalePotentielleM2 \div niveaux ] ] ]

\* lines 354-424
computeEtudeArchi(surfaceTerrainM2, ruleset, projet) ==
  LET emprise == empriseAutoriseeM2(surfaceTerrainM2, ruleset)
      niveaux == nbNiveauxPossibles(ruleset)
      \* 1e-6 m2
      surfaceNiveauTypiqueM2 == emprise * tauxEfficiencesPlans
      sdpTotalePotentielleM2 == surfaceNiveauTypiqueM2 * niveaux
      impl == Get(ruleset, "implantation")
  IN  [ surface_terrain_m2 |-> round(surfaceTerrainM2, 1),
        emprise_autorisee_m2 |-> round(emprise, 100),
        retraits |->
          [ rue_m |-> safeNumber(Get(impl, "retrait_rue_m"), 0),
            fond_m |-> safeNumber(Get(impl, "retrait_fond_parcelle_m"), NULL),
            lateraux_m |-> safeNumber(Get(impl, "retrait_lateraux_m"), NULL) ],
        hauteur_max_m |-> hauteurMaxM(ruleset),
        hypotheses |->
          [ hauteur_niveau_m |-> hauteurNiveauM,
            taux_efficiences_plans |-> tauxEfficiencesPlans,
            scenario_projet |->
              IF projet.scenario = "" THEN "logement_seul"
              ELSE projet.scenario ],
        nb_niveaux_possibles |-> niveaux,
        surface_niveau_typique_m2 |-> round(surfaceNiveauTypiqueM2, 10000),
        sdp_totale_potentielle_m2 |-> round(sdpTotalePotentielleM2, 10000),
        \* 1e-6 m2, not rounded
        repartition_fonctions |->
          [ rdc |-> [ type |-> "logement",
                      m2 |-> sdpTotalePotentielleM2 \div niveaux ],
            etages |-> [ type |-> "logement",
                         m2 |-> sdpTotalePotentielleM2
                                  - sdpTotalePotentielleM2 \div niveaux ] ] ]

\* ---------------------------------------------------------------------
\* Exact quotients without 32-bit overflow
\* ---------------------------------------------------------------------
\* <<Q, R>> with k * a = Q * b + R and 0 <= R < b, for b > 0 and k >= 0
RECURSIVE MulDivMod(_, _, _)
MulDivMod(a, k, b) ==
  IF k = 0 THEN <<0, 0>>
  ELSE IF k % 2 = 1
  THEN LET p == MulDivMod(a, k - 1, b)
           qa == a \div b
           ra == a % b
       IN  IF p[2] >= b - ra
           THEN <<p[1] + qa + 1, p[2] - (b - ra)>>
           ELSE <<p[1] + qa, p[2] + ra>>
  ELSE LET p == MulDivMod(a, k \div 2, b)
       IN  IF p[2] >= b - p[2]
           THEN <<2 * p[1] + 1, p[2] - (b - p[2])>>
           ELSE <<2 * p[1], 2 * p[2]>>

\* Math.round(k * a / b) for b # 0 and k >= 0
RoundMulDiv(a, k, b) ==
  LET p == IF b > 0 THEN MulDivMod(a, k, b) ELSE MulDivMod(-a, k, -b)
      d == IF b > 0 THEN b ELSE -b
  IN  IF p[2] >= d - p[2] THEN p[1] + 1 ELSE p[1]

\* ---------------------------------------------------------------------
\* Revenus & couts hors foncier
\* ---------------------------------------------------------------------
\* profil.params?.a?.b?.c
Path(params, path) ==
  IF Len(path) = 1 THEN Get(params, path[1])
  ELSE IF Len(path) = 2 THEN Get(Get(params, path[1]), path[2])
  ELSE Get(Get(Get(params, path[1]), path[2]), path[3])

\* the parameters of the profile ignored
ParamDefaultOnly(profil, path, dflt) == dflt

\* safeNumber(profil.params?.<path>, dflt) ?? dflt
Param(profil, path, dflt) ==
  Coalesce(safeNumber(Path(profil.params, path), dflt), dflt)

\* honoraria and design-study fees taken on the revenue
computeRevenusFeesOnRevenue(etudeArchi, profil) ==
  LET sdpTotale == Coalesce(etudeArchi.sdp_totale_potentielle_m2, 0)
      m2Logement == sdpTotale
      m2Commerce == 0
      m2Bureaux == 0
      prixLogement ==
        Param(profil, <<"ventes", "logement", "prix_vente_m2">>, 7000)
      prixCommerce ==
        Param(profil, <<"ventes", "commerce", "prix_vente_m2">>, 8000)
      prixBureaux ==
        Param(profil, <<"ventes", "bureaux", "prix_vente_m2">>, 7500)
      \* cents
      caLogement == m2Logement * prixLogement
      caCommerce == m2Commerce * prixCommerce
      caBureaux == m2Bureaux * prixBureaux
      caTotal == caLogement + caCommerce + caBureaux
      \* cents
      coutConstructionLogement ==
        m2Logement
          * Param(profil, <<"couts", "construction", "logement_m2">>, 2300)
      coutConstructionCommerce ==
        m2Commerce
          * Param(profil, <<"couts", "construction", "commerce_m2">>, 2200)
      coutConstructionBureaux ==
        m2Bureaux
          * Param(profil, <<"couts", "construction", "bureaux_m2">>, 2400)
      coutConstructionTotal ==
        coutConstructionLogement + coutConstructionCommerce
          + coutConstructionBureaux
      honorairesPct == Param(profil, <<"couts", "honoraires_pct">>, 5)
      fraisEtudesPct == Param(profil, <<"couts", "frais_etudes_pct">>, 2)
      fraisCommerciauxPct ==
        Param(profil, <<"couts", "frais_commerciaux_pct">>, 3)
      fraisFinanciersPct ==
        Param(profil, <<"couts", "frais_financiers_pct">>, 4)
      taxesPct == Param(profil, <<"couts", "taxes_pct">>, 3)
      \* 1e-4 EUR (cents x percent)
      honoraires == caTotal * honorairesPct
      fraisEtudes == caTotal * fraisEtudesPct
      fraisCommerciaux == caTotal * fraisCommerciauxPct
      fraisFinanciers == caTotal * fraisFinanciersPct
      taxes == caTotal * taxesPct
      coutHorsFoncierTotal ==
        coutConstructionTotal * 100 + honoraires + fraisEtudes
          + fraisCommerciaux + fraisFinanciers + taxes
  IN  [ sdpTotale |-> sdpTotale,
        ventes |->
          [ logement |-> [ m2 |-> round(m2Logement, 1),
                           prix_m2 |-> round(prixLogement, 1),
                           ca |-> round(caLogement, 100) ],
            commerce |-> [ m2 |-> round(m2Commerce, 1),
                           prix_m2 |-> round(prixCommerce, 1),
                           ca |-> round(caCommerce, 100) ],
            bureaux |-> [ m2 |-> round(m2Bureaux, 1),
                          prix_m2 |-> round(prixBureaux, 1),
                          ca |-> round(caBureaux, 100) ],
            ca_total |-> round(caTotal, 100) ],
        couts_hors_foncier |->
          [ construction |-> round(coutConstructionTotal, 100),
            honoraires |-> round(honoraires, 10000),
            frais_etudes |-> round(fraisEtudes, 10000),
            frais_commerciaux |-> round(fraisCommerciaux, 10000),
            frais_financiers |-> round(fraisFinanciers, 10000),
            taxes |-> round(taxes, 10000),
            cout_total_hors_foncier |-> round(coutHorsFoncierTotal, 10000) ],
        \* cents
        ca_total_brut |-> caTotal,
        \* 1e-4 EUR
        cout_total_hors_foncier_brut |-> coutHorsFoncierTotal ]

\* lines 430-540
computeRevenusEtCoutsHorsFoncier(etudeArchi, profil) ==
  LET sdpTotale == Coalesce(etudeArchi.sdp_totale_potentielle_m2, 0)
      m2Logement == sdpTotale
      m2Commerce == 0
      m2Bureaux == 0
      prixLogement ==
        Param(profil, <<"ventes", "logement", "prix_vente_m2">>, 7000)
      prixCommerce ==
        Param(profil, <<"ventes", "commerce", "prix_vente_m2">>, 8000)
      prixBureaux ==
        Param(profil, <<"ventes", "bureaux", "prix_vente_m2">>, 7500)
      \* cents
      caLogement == m2Logement * prixLogement
      caCommerce == m2Commerce * prixCommerce
      caBureaux == m2Bureaux * prixBureaux
      caTotal == caLogement + caCommerce + caBureaux
      \* cents
      coutConstructionLogement ==
        m2Logement
          * Param(profil, <<"couts", "construction", "logement_m2">>, 2300)
      coutConstructionCommerce ==
        m2Commerce
          * Param(profil, <<"couts", "construction", "commerce_m2">>, 2200)
      coutConstructionBureaux ==
        m2Bureaux
          * Param(profil, <<"couts", "construction", "bureaux_m2">>, 2400)
      coutConstructionTotal ==
        coutConstructionLogement + coutConstructionCommerce
          + coutConstructionBureaux
      honorairesPct == Param(profil, <<"couts", "honoraires_pct">>, 5)
      fraisEtudesPct == Param(profil, <<"couts", "frais_etudes_pct">>, 2)
      fraisCommerciauxPct ==
        Param(profil, <<"couts", "frais_commerciaux_pct">>, 3)
      fraisFinanciersPct ==
        Param(profil, <<"couts", "frais_financiers_pct">>, 4)
      taxesPct == Param(profil, <<"couts", "taxes_pct">>, 3)
      \* 1e-4 EUR (cents x percent)
      honoraires == coutConstructionTotal * honorairesPct
      fraisEtudes == coutConstructionTotal * fraisEtudesPct
      fraisCommerciaux == caTotal * fraisCommerciauxPct
      fraisFinanciers == caTotal * fraisFinanciersPct
      taxes == caTotal * taxesPct
      coutHorsFoncierTotal ==
        coutConstructionTotal * 100 + honoraires + fraisEtudes
          + fraisCommerciaux + fraisFinanciers + taxes
  IN  [ sdpTotale |-> sdpTotale,
        ventes |->
          [ logement |-> [ m2 |-> round(m2Logement, 1),
                           prix_m2 |-> round(prixLogement, 1),
                           ca |-> round(caLogement, 100) ],
            commerce |-> [ m2 |-> round(m2Commerce, 1),
                           prix_m2 |-> round(prixCommerce, 1),
                           ca |-> round(caCommerce, 100) ],
            bureaux |-> [ m2 |-> round(m2Bureaux, 1),
                          prix_m2 |-> round(prixBureaux, 1),
                          ca |-> round(caBureaux, 100) ],
            ca_total |-> round(caTotal, 100) ],
        couts_hors_foncier |->
          [ construction |-> round(coutConstructionTotal, 100),
            honoraires |-> round(honoraires, 10000),
            frais_etudes |-> round(fraisEtudes, 10000),
            frais_commerciaux |-> round(fraisCommerciaux, 10000),
            frais_financiers |-> round(fraisFinanciers, 10000),
            taxes |-> round(taxes, 10000),
            cout_total_hors_foncier |-> round(coutHorsFoncierTotal, 10000) ],
        \* cents
        ca_total_brut |-> caTotal,
        \* 1e-4 EUR
        cout_total_hors_foncier_brut |-> coutHorsFoncierTotal ]

\* ---------------------------------------------------------------------
\* Foncier + marge
\* ---------------------------------------------------------------------
FoncierModes == {"saisi", "residuel", "none", "dvf"}

\* the comparisons of the bands made strict
margeTauxAbove(margeMontant, caTotal, x) ==
  IF caTotal > 0 THEN margeMontant > x * caTotal ELSE 0 > x

\* lines 584-587; margeTaux = margeMontant / caTotal when caTotal > 0,
\* else 0.  margeMontant in 1e-4 EUR, caTotal in cents, margeCible in
\* percent: margeTaux >= x/100  <=>  margeMontant >= x * caTotal
margeTauxAtLeast(margeMontant, caTotal, x) ==
  IF caTotal > 0 THEN margeMontant >= x * caTotal ELSE 0 >= x

\* ("tres confortable" stands for the accented label of line 584)
appreciationOf(margeMontant, caTotal, margeCible) ==
  IF margeTauxAtLeast(margeMontant, caTotal, margeCible + 5)
  THEN "tres confortable"
  ELSE IF margeTauxAtLeast(margeMontant, caTotal, margeCible)
  THEN "confortable"
  ELSE IF margeTauxAtLeast(margeMontant, caTotal, margeCible - 3)
  THEN "tendue"
  ELSE "faible"

\* lines 573-576, 1e-4 EUR
coutFoncierEffectifOf(mode, valeurTerrainSaisi) ==
  IF mode = "saisi" /\ valeurTerrainSaisi # NULL /\ valeurTerrainSaisi > 0
  THEN valeurTerrainSaisi
  ELSE 0

\* the target margin left out of the residual value
valeurTerrainResiduelleNoMarge(caTotal, coutHorsFoncierTotal, margeCible) ==
  caTotal * 100 - coutHorsFoncierTotal

\* lines 560-561, 1e-4 EUR
valeurTerrainResiduelleOf(caTotal, coutHorsFoncierTotal, margeCible) ==
  caTotal * (100 - margeCible) - coutHorsFoncierTotal

\* caTotal in cents; coutHorsFoncierTotal in 1e-4 EUR; surfaces in centi-m2;
\* foncier.valeur_terrain_saisi in 1e-4 EUR
computeFoncierEtMarge(caTotal, coutHorsFoncierTotal, sdpTotale, surfaceTerrainM2, profil, foncier) ==
  LET margeCible ==
        Param(profil, <<"objectif", "marge_cible_pct_sur_ca">>, 12)
      valeurTerrainResiduelle ==
        valeurTerrainResiduelleOf(caTotal, coutHorsFoncierTotal, margeCible)
      mode == IF foncier.mode \in FoncierModes THEN foncier.mode ELSE "none"
      valeurTerrainSaisi == foncier.valeur_terrain_saisi
      coutFoncierEffectif == coutFoncierEffectifOf(mode, valeurTerrainSaisi)
      coutTotalEffectif == coutHorsFoncierTotal + coutFoncierEffectif
      margeMontant == caTotal * 100 - coutTotalEffectif
      \* round(margeTaux * 100, 1), tenths of a percent
      margeTauxPct10 ==
        IF caTotal > 0 THEN RoundMulDiv(margeMontant, 10, caTotal) ELSE 0
      sdp == IF sdpTotale > 0 THEN sdpTotale ELSE 100
      terrainM2 == IF surfaceTerrainM2 > 0 THEN surfaceTerrainM2 ELSE 100
      deltaVsResiduel == coutFoncierEffectif - valeurTerrainResiduelle
  IN  [ cout_foncier_effectif |-> round(coutFoncierEffectif, 10000),
        cout_total_effectif |-> round(coutTotalEffectif, 10000),
        valeur_terrain_residuelle |-> round(valeurTerrainResiduelle, 10000),
        marge |->
          [ montant |-> round(margeMontant, 10000),
            taux_sur_ca |-> margeTauxPct10,
            marge_cible_pct_sur_ca |-> margeCible * 10,
            appreciation |->
              appreciationOf(margeMontant, caTotal, margeCible) ],
        foncier_detail |->
          [ mode |-> mode,
            valeur_terrain_saisi |-> round(valeurTerrainSaisi, 10000),
            valeur_terrain_residuelle |->
              round(valeurTerrainResiduelle, 10000),
            delta_vs_residuel |-> round(deltaVsResiduel, 10000),
            \* tenths of a percent
            delta_vs_residuel_pct |->
              IF valeurTerrainResiduelle # 0
              THEN RoundMulDiv(deltaVsResiduel, 1000,
                               valeurTerrainResiduelle)
              ELSE NULL,
            par_m2_sdp |->
              [ residuel |-> RoundQuot(valeurTerrainResiduelle, 100 * sdp),
                saisi |-> IF coutFoncierEffectif > 0
                          THEN RoundQuot(coutFoncierEffectif, 100 * sdp)
                          ELSE NULL ],
            par_m2_terrain |->
              [ residuel |->
                  RoundQuot(valeurTerrainResiduelle, 100 * terrainM2),
                saisi |-> IF coutFoncierEffectif > 0
                          THEN RoundQuot(coutFoncierEffectif, 100 * terrainM2)
                          ELSE NULL ] ] ]

\* ---------------------------------------------------------------------
\* Estimation fonciere via DVF
\* ---------------------------------------------------------------------
DvfMinSamples == 30
DvfRatioMin == 50
DvfRatioMax == 20000

RECURSIVE keptRows(_)
\* the sanity band left out
keptRowsNoBand(rows) ==
  IF rows = <<>> THEN <<>>
  ELSE LET row == Head(rows)
           keep == /\ row.v # NULL /\ row.v # 0
                   /\ row.s # NULL /\ row.s # 0 /\ row.s > 0
       IN  (IF keep THEN <<row>> ELSE <<>>) \o keptRows(Tail(rows))

\* lines 321-326: the rows whose ratio is kept, in the order of the answer.
\* A row is [v |-> valeur_fonciere (EUR), s |-> surface_terrain (m2)].
keptRows(rows) ==
  IF rows = <<>> THEN <<>>
  ELSE LET row == Head(rows)
           keep == /\ row.v # NULL /\ row.v # 0
                   /\ row.s # NULL /\ row.s # 0 /\ row.s > 0
                   /\ row.v >= DvfRatioMin * row.s
                   /\ row.v <= DvfRatioMax * row.s
       IN  (IF keep THEN <<row>> ELSE <<>>) \o keptRows(Tail(rows))

\* a.v / a.s <= b.v / b.s
RatioLeq(a, b) == a.v * b.s <= b.v * a.s

RECURSIVE InsertRatio(_, _)
InsertRatio(row, sorted) ==
  IF sorted = <<>> THEN <<row>>
  ELSE IF RatioLeq(row, Head(sorted)) THEN <<row>> \o sorted
  ELSE <<Head(sorted)>> \o InsertRatio(row, Tail(sorted))

\* line 336: ratios.sort((a, b) => a - b)
RECURSIVE sortRatios(_)
sortRatios(rows) ==
  IF rows = <<>> THEN <<>>
  ELSE InsertRatio(Head(rows), sortRatios(Tail(rows)))

\* the upper central value taken for an even count too
medianOfUpper(sorted) ==
  LET mid == Len(sorted) \div 2
  IN  <<sorted[mid + 1].v, sorted[mid + 1].s>>

\* lines 337-339: the median as a fraction <<numerator, denominator>>
\* (mid is a 0-based index in the source)
medianOf(sorted) ==
  LET mid == Len(sorted) \div 2
  IN  IF Len(sorted) % 2 = 1
      THEN <<sorted[mid + 1].v, sorted[mid + 1].s>>
      ELSE <<sorted[mid].v * sorted[mid + 1].s
               + sorted[mid + 1].v * sorted[mid].s,
             2 * sorted[mid].s * sorted[mid + 1].s>>

\* answer: [kind |-> "data" | "error" | "throws", rows |-> rows];
\* valeur_terrain in 1e-4 EUR (kept to the nearest 1e-4 EUR)
estimateFoncierFromDvfByCommune(answer, surfaceTerrainM2) ==
  IF answer.kind = "throws"
  THEN [ valeur_terrain |-> NULL,
         meta |-> [ reason |-> "dvf_exception", samples |-> NULL,
                    median |-> <<>> ] ]
  ELSE IF answer.kind = "error"
  THEN [ valeur_terrain |-> NULL,
         meta |-> [ reason |-> "dvf_error", samples |-> NULL,
                    median |-> <<>> ] ]
  ELSE LET ratios == keptRows(answer.rows)
       IN  IF Len(ratios) < DvfMinSamples
           THEN [ valeur_terrain |-> NULL,
                  meta |-> [ reason |-> "dvf_not_enough_samples",
                             samples |-> Len(ratios), median |-> <<>> ] ]
           ELSE LET median == medianOf(sortRatios(ratios))
                IN  [ valeur_terrain |->
                        RoundQuot(median[1] * surfaceTerrainM2 * 100,
                                  median[2]),
                      meta |-> [ reason |-> "ok", samples |-> Len(ratios),
                                 median |-> median ] ]

\* ---------------------------------------------------------------------
\* Profil promoteur
\* ---------------------------------------------------------------------
defaults ==
  Obj([ ventes |->
          Obj([ logement |-> Obj([ prix_vente_m2 |-> Num(7000),
                                   taux_vacance |-> Num(0) ]),
                commerce |-> Obj([ prix_vente_m2 |-> Num(8000),
                                   taux_vacance |-> Num(0) ]) ]),
        couts |->
          Obj([ construction |-> Obj([ logement_m2 |-> Num(2300),
                                       commerce_m2 |-> Num(2200),
                                       bureaux_m2 |-> Num(2400) ]),
                honoraires_pct |-> Num(5),
                frais_etudes_pct |-> Num(2),
                frais_commerciaux_pct |-> Num(3),
                frais_financiers_pct |-> Num(4),
                taxes_pct |-> Num(3) ]),
        objectif |-> Obj([ marge_cible_pct_sur_ca |-> Num(12) ]) ])

\* financement?.overrides ? deepMerge(base, overrides) : base
withOverrides(base, financement) ==
  IF financement.present /\ Truthy(financement.overrides)
  THEN deepMerge(base, financement.overrides)
  ELSE base

\* line 221: the profile is looked up only when a profile_code is given
profileLookupNeeded(financement) ==
  financement.present /\ financement.profile_code # ""

\* lines 221-229: no profile_code
fetchPromoteurProfileDefault(financement) ==
  [ code |-> "DEFAULT", params |-> withOverrides(defaults, financement),
    source |-> "default" ]

\* a query error taken for a row
fetchPromoteurProfileErrorAsRow(financement, answer) ==
  IF answer.kind = "miss"
  THEN [ code |-> financement.profile_code,
         params |-> withOverrides(defaults, financement),
         source |-> "default" ]
  ELSE [ code |-> answer.code,
         params |-> withOverrides(answer.params, financement),
         source |-> "db" ]

\* lines 238-254: answer is [kind |-> "found" | "miss" | "error",
\* code, params]
fetchPromoteurProfileFromDb(financement, answer) ==
  IF answer.kind # "found"
  THEN [ code |-> financement.profile_code,
         params |-> withOverrides(defaults, financement),
         source |-> "default" ]
  ELSE [ code |-> answer.code,
         params |-> withOverrides(answer.params, financement),
         source |-> "db" ]

\* ---------------------------------------------------------------------
\* Surface depuis le cadastre
\* ---------------------------------------------------------------------
\* line 283: candidates.find((x) => x && x > 0) ?? null
RECURSIVE firstPositive(_)
firstPositive(candidates) ==
  IF candidates = <<>> THEN NULL
  ELSE IF Head(candidates) # NULL /\ Head(candidates) # 0
          /\ Head(candidates) > 0
  THEN Head(candidates)
  ELSE firstPositive(Tail(candidates))

\* answer: [kind |-> "data" | "miss" | "error", candidates |-> the six
\* surface fields of the row, in the order of lines 275-280, centi-m2]
fetchSurfaceFromCadastre(answer) ==
  IF answer.kind # "data" THEN NULL ELSE firstPositive(answer.candidates)

\* ---------------------------------------------------------------------
\* Requests and collaborator answers of the model
\* ---------------------------------------------------------------------
Euro(n) == n * 10000
M2(n) == n * 100

Ruleset(ratio, capM2, hauteur, rue) ==
  Obj([ emprise_sol |-> Obj([ max_ratio |-> J(ratio), max_m2 |-> J(capM2) ]),
        hauteur |-> Obj([ hauteur_max_m |-> J(hauteur) ]),
        implantation |-> Obj([ retrait_rue_m |-> J(rue),
                               retrait_fond_parcelle_m |-> Null ]) ])

\* rulesets of plu_ruleset_normalized (surfaces centi-m2, heights dm)
DbRulesets ==
  { Obj(<<>>),
    Ruleset(60, NULL, 150, 50),
    Ruleset(100, M2(1), 95, NULL),
    Ruleset(50, 0, 20, 0),
    Ruleset(150, NULL, 60, NULL),
    Ruleset(55, -M2(1), NULL, 30),
    Ruleset(40, NULL, -5, NULL),
    Ruleset(NULL, M2(100), 150, NULL) }

OverrideRuleset == Obj([ emprise_sol |-> Obj([ max_m2 |-> Num(M2(2)) ]) ])

PluOverridesInputs ==
  { [ present |-> FALSE, ruleset |-> Null, hasSource |-> FALSE ],
    [ present |-> TRUE, ruleset |-> Null, hasSource |-> TRUE ],
    [ present |-> TRUE, ruleset |-> OverrideRuleset, hasSource |-> FALSE ] }

ParcelInputs ==
  { [ parcel_id |-> "", surface_terrain_m2 |-> NULL ],
    [ parcel_id |-> "P1", surface_terrain_m2 |-> NULL ],
    [ parcel_id |-> "P1", surface_terrain_m2 |-> -M2(1) ],
    [ parcel_id |-> "", surface_terrain_m2 |-> 0 ],
    [ parcel_id |-> "P1", surface_terrain_m2 |-> 251 ],
    [ parcel_id |-> "", surface_terrain_m2 |-> M2(MaxSurfaceM2) ] }

ProjetInputs ==
  { [ destination_principale |-> "logement", scenario |-> "" ],
    [ destination_principale |-> "logement", scenario |-> "mixte" ] }

FinancementOverrides ==
  Obj([ objectif |-> Obj([ marge_cible_pct_sur_ca |-> Num(15) ]),
        couts |-> Obj([ honoraires_pct |-> Num(6) ]) ])

\* overrides that replace a composite section by a leaf, a leaf by null,
\* and bring a section no profile has
LeafOverrides ==
  Obj([ objectif |-> Num(10),
        couts |-> Obj([ taxes_pct |-> Null ]),
        extra |-> Obj([ k |-> Num(1) ]) ])

FinancementInputs ==
  { [ present |-> FALSE, profile_code |-> "", overrides |-> Null ],
    [ present |-> TRUE, profile_code |-> "PROMO", overrides |-> LeafOverrides ],
    [ present |-> TRUE, profile_code |-> "PROMO", overrides |-> Null ],
    [ present |-> TRUE, profile_code |-> "",
      overrides |-> FinancementOverrides ],
    [ present |-> TRUE, profile_code |-> "PROMO",
      overrides |-> FinancementOverrides ] }

\* valeur_terrain_saisi in 1e-4 EUR
FoncierInputs ==
  { [ present |-> FALSE, mode |-> "", valeur_terrain_saisi |-> NULL ],
    [ present |-> TRUE, mode |-> "", valeur_terrain_saisi |-> Euro(3000) ],
    [ present |-> TRUE, mode |-> "bogus", valeur_terrain_saisi |-> NULL ],
    [ present |-> TRUE, mode |-> "none", valeur_terrain_saisi |-> NULL ],
    [ present |-> TRUE, mode |-> "residuel", valeur_terrain_saisi |-> NULL ],
    [ present |-> TRUE, mode |-> "saisi", valeur_terrain_saisi |-> NULL ],
    [ present |-> TRUE, mode |-> "saisi",
      valeur_terrain_saisi |-> -Euro(5000) ],
    [ present |-> TRUE, mode |-> "saisi", valeur_terrain_saisi |-> 0 ],
    [ present |-> TRUE, mode |-> "saisi",
      valeur_terrain_saisi |-> Euro(3000) ],
    \* declared values that put the margin ratio of the 2.51 m2 terrain
    \* (revenue 38400, costs hors foncier 20960, target 12 %) at 17 %, at
    \* 9 % and just below 9 %
    [ present |-> TRUE, mode |-> "saisi",
      valeur_terrain_saisi |-> Euro(10912) ],
    [ present |-> TRUE, mode |-> "saisi",
      valeur_terrain_saisi |-> Euro(13984) ],
    [ present |-> TRUE, mode |-> "saisi",
      valeur_terrain_saisi |-> Euro(13984) + 1 ],
    [ present |-> TRUE, mode |-> "dvf", valeur_terrain_saisi |-> NULL ] }

PluInput == [ commune_insee |-> "64065", zone_code |-> "UC" ]

\* a parsed body; hasParcel / hasPlu / hasProjet: the section is truthy
Bodies ==
  { [ valid |-> TRUE, hasParcel |-> TRUE, hasPlu |-> TRUE,
      hasProjet |-> TRUE, parcel |-> pa, plu |-> PluInput, projet |-> pr,
      financement |-> fi, foncier |-> fo, plu_overrides |-> po ] :
    pa \in ParcelInputs, pr \in ProjetInputs, fi \in FinancementInputs,
    fo \in FoncierInputs, po \in PluOverridesInputs }

BaseBody ==
  [ valid |-> TRUE, hasParcel |-> TRUE, hasPlu |-> TRUE, hasProjet |-> TRUE,
    parcel |-> [ parcel_id |-> "P1", surface_terrain_m2 |-> 251 ],
    plu |-> PluInput,
    projet |-> [ destination_principale |-> "logement", scenario |-> "" ],
    financement |->
      [ present |-> TRUE, profile_code |-> "PROMO", overrides |-> Null ],
    foncier |->
      [ present |-> TRUE, mode |-> "dvf", valeur_terrain_saisi |-> NULL ],
    plu_overrides |->
      [ present |-> TRUE, ruleset |-> OverrideRuleset,
        hasSource |-> FALSE ] ]

\* bodies that do not parse or lack a required section
BadBodies ==
  { [ BaseBody EXCEPT !.valid = FALSE ] }
    \cup { [ BaseBody EXCEPT !.hasParcel = a, !.hasPlu = b, !.hasProjet = c ] :
           a \in BOOLEAN, b \in BOOLEAN, c \in BOOLEAN }

Methods == { "OPTIONS", "GET", "POST" }

CadastreAnswers ==
  { [ kind |-> "throws", candidates |-> <<>> ],
    [ kind |-> "error", candidates |-> <<>> ],
    [ kind |-> "miss", candidates |-> <<>> ],
    [ kind |-> "data", candidates |-> <<NULL, 0, -M2(1), NULL, NULL, NULL>> ],
    [ kind |-> "data",
      candidates |-> <<NULL, 0, NULL, 333, NULL, M2(MaxSurfaceM2)>> ] }

DbPluMeta == [ id |-> "rs1", plu_source_type |-> "plu_pdf" ]

PluAnswers ==
  { [ kind |-> "throws", ruleset |-> Null ],
    [ kind |-> "error", ruleset |-> Null ],
    [ kind |-> "miss", ruleset |-> Null ],
    [ kind |-> "found", ruleset |-> Null ] }
    \cup { [ kind |-> "found", ruleset |-> r ] : r \in DbRulesets }

DbProfileParams ==
  Obj([ ventes |-> Obj([ logement |-> Obj([ prix_vente_m2 |-> Num(6000) ]) ]),
        couts |-> Obj([ construction |-> Obj([ logement_m2 |-> Num(2500) ]),
                        honoraires_pct |-> Num(5) ]),
        objectif |-> Obj([ marge_cible_pct_sur_ca |-> Num(12) ]) ])

\* a profile whose construction cost exceeds its sale price
DbLossParams ==
  Obj([ ventes |-> Obj([ logement |-> Obj([ prix_vente_m2 |-> Num(2000) ]) ]),
        couts |-> Obj([ construction |-> Obj([ logement_m2 |-> Num(2500) ]) ]) ])

ProfileAnswers ==
  { [ kind |-> "throws", code |-> "", params |-> Null ],
    [ kind |-> "error", code |-> "", params |-> Null ],
    [ kind |-> "miss", code |-> "", params |-> Null ],
    [ kind |-> "found", code |-> "PROMO", params |-> DbProfileParams ],
    [ kind |-> "found", code |-> "PROMO", params |-> DbLossParams ],
    [ kind |-> "found", code |-> "PROMO", params |-> defaults ] }

\* the i-th comparable of a DVF answer: ratios between 100 and 340 EUR/m2
DvfRow(i) == [ v |-> 200 + 14 * ((i * 5) % 11), s |-> 1 + (i % 2) ]

\* rows the ratio band or the truthiness test discards, and the two ends
\* of the band
DvfDiscarded ==
  << [ v |-> 49, s |-> 1 ], [ v |-> 40001, s |-> 2 ], [ v |-> NULL, s |-> 1 ],
     [ v |-> 500, s |-> 0 ], [ v |-> -500, s |-> 2 ], [ v |-> -500, s |-> -2 ],
     [ v |-> 0, s |-> 1 ], [ v |-> 500, s |-> NULL ] >>
DvfBandEnds == << [ v |-> 100, s |-> 2 ], [ v |-> 20000, s |-> 1 ] >>

\* n kept rows (two of them at the ends of the band when n >= 2),
\* interleaved with the discarded ones
DvfRows(n) ==
  IF n < 2 THEN [ i \in 1..n |-> DvfRow(i) ]
  ELSE SubSeq(DvfDiscarded, 1, 2) \o [ i \in 1..(n - 2) |-> DvfRow(i) ]
         \o SubSeq(DvfDiscarded, 3, Len(DvfDiscarded)) \o DvfBandEnds

Reverse(seq) == [ i \in 1..Len(seq) |-> seq[Len(seq) + 1 - i] ]

\* the answers of the DVF query; one of them comes in two row orders
DvfAnswers ==
  { [ kind |-> "throws", rows |-> <<>> ],
    [ kind |-> "error", rows |-> <<>> ],
    [ kind |-> "data", rows |-> Reverse(DvfRows(DvfMinSamples)) ] }
    \cup { [ kind |-> "data", rows |-> DvfRows(n) ] :
           n \in { 0, DvfMinSamples - 1, DvfMinSamples, MaxDvfRows } }

\* ---------------------------------------------------------------------
\* Handler principal HTTP: state of one invocation
\* ---------------------------------------------------------------------
VARIABLES
  pc,               \* position of the handler: the await it is suspended at
  method,           \* req.method
  body,             \* the request body
  issued,           \* the collaborator queries issued so far, in order
  answers,          \* the kind of answer each query got, in order
  surfaceTerrain,   \* let surfaceTerrain
  finalRuleset,     \* const finalRuleset
  finalPluSource,   \* const finalPluSource
  profil,           \* const profil
  etudeArchi,       \* const etudeArchi
  revenusCouts,     \* const revenusCouts
  foncierEffective, \* let foncierEffective
  dvf,              \* const dvf (result of estimateFoncierFromDvfByCommune)
  dvfData,          \* const { data } of the DVF query, once answered
  dvfInfo,          \* let dvfInfo
  foncierEtMarge,   \* let foncierEtMarge
  response,         \* the Response returned
  ref,              \* a run of the calculation stages on inputs of its own
  received,         \* the answers this invocation received, in order
  parked            \* the locals of a second invocation suspended meanwhile

vars ==
  << pc, method, body, issued, answers, surfaceTerrain, finalRuleset,
     finalPluSource,
     profil, etudeArchi, revenusCouts, foncierEffective, dvf, dvfInfo,
     foncierEtMarge, response, dvfData, ref, received, parked >>

Unset == [ unset |-> TRUE ]
NoResponse == [ kind |-> "none", status |-> 0 ]
NoDvfInfo == [ present |-> FALSE ]
NoRef == [ stage |-> "none" ]
\* no second invocation
Alone == [ alone |-> TRUE ]

\* the answers received so far; they are recorded in the runs with a second
\* invocation only (alone, the kinds in answers tell the runs apart)
Received(answer) ==
  IF parked = Alone THEN received ELSE Append(received, answer)

ErrorResponse(st, err) ==
  [ kind |-> "error", status |-> st, success |-> FALSE, error |-> err ]

Init ==
  /\ pc = "start"
  /\ method \in Methods
  /\ body \in Bodies \cup BadBodies
  /\ issued = <<>>
  /\ answers = <<>>
  /\ surfaceTerrain = NULL
  /\ finalRuleset = Null
  /\ finalPluSource = Unset
  /\ profil = Unset
  /\ etudeArchi = Unset
  /\ revenusCouts = Unset
  /\ foncierEffective = Unset
  /\ dvf = Unset
  /\ dvfData = <<>>
  /\ dvfInfo = NoDvfInfo
  /\ foncierEtMarge = Unset
  /\ response = NoResponse
  /\ ref = NoRef
  /\ received = <<>>
  /\ parked = Alone

\* return new Response(...): the invocation ends
Return(resp) ==
  /\ pc' = "done"
  /\ response' = resp

\* lines 760-762
foncierEffectiveOf(foncierInput) ==
  IF foncierInput.present
  THEN [ mode |-> foncierInput.mode,
         valeur_terrain_saisi |-> foncierInput.valeur_terrain_saisi ]
  ELSE [ mode |-> "none", valeur_terrain_saisi |-> NULL ]

\* the comparables queried for a declared value too
dvfRequestedOrSaisi(foncier) == foncier.mode \in { "dvf", "saisi" }

\* line 765
dvfRequested(foncier) == foncier.mode = "dvf"

\* lines 771-793: <<foncierEffective, dvfInfo>> after the DVF estimate
dvfStage(foncier, d) ==
  IF d.valeur_terrain # NULL
  THEN << [ mode |-> "saisi", valeur_terrain_saisi |-> d.valeur_terrain ],
          [ present |-> TRUE, source |-> "dvf_commune",
            reason |-> d.meta.reason, samples |-> d.meta.samples,
            median |-> d.meta.median,
            valeur_terrain_estimee |-> d.valeur_terrain,
            used_for_foncier |-> TRUE, human_message |-> "",
            fallback_mode |-> "",
            valeur_terrain_residuelle_utilisee |-> NULL ] >>
  ELSE << foncier,
          [ present |-> TRUE, source |-> "dvf_commune",
            reason |-> d.meta.reason, samples |-> d.meta.samples,
            median |-> d.meta.median,
            valeur_terrain_estimee |-> NULL,
            used_for_foncier |-> FALSE,
            human_message |-> "residuelle sera utilisee",
            fallback_mode |-> "",
            valeur_terrain_residuelle_utilisee |-> NULL ] >>

\* line 815: the land value substituted by the fallback, from the rounded
\* residual value (EUR) to 1e-4 EUR
valeurSubstituee(valeurResiduelle) ==
  IF valeurResiduelle > 0 THEN Euro(valeurResiduelle) ELSE 0

\* lines 806-810
fallbackNeeded(foncier, info) ==
  foncier.mode = "dvf" /\ info.present /\ info.used_for_foncier = FALSE

\* the second pass left out: the figures of the first pass are kept
foncierStageFirstPass(rc, surface, prof, foncier, info) ==
  LET premier ==
        computeFoncierEtMarge(rc.ca_total_brut,
                              rc.cout_total_hors_foncier_brut, rc.sdpTotale,
                              surface, prof, foncier)
  IN  IF fallbackNeeded(foncier, info)
      THEN LET valeurResiduelle ==
                 Coalesce(premier.valeur_terrain_residuelle, 0)
               fe == [ mode |-> "saisi",
                       valeur_terrain_saisi |->
                         valeurSubstituee(valeurResiduelle) ]
           IN  [ foncierEffective |-> fe,
                 dvfInfo |->
                   [ info EXCEPT
                       !.human_message = "residuelle utilisee",
                       !.used_for_foncier = TRUE,
                       !.fallback_mode = "residuel_from_marge",
                       !.valeur_terrain_residuelle_utilisee =
                         valeurResiduelle ],
                 foncierEtMarge |-> premier ]
      ELSE [ foncierEffective |-> foncier, dvfInfo |-> info,
             foncierEtMarge |-> premier ]

\* lines 795-834: first pass, automatic fallback, second pass
foncierStage(rc, surface, prof, foncier, info) ==
  LET premier ==
        computeFoncierEtMarge(rc.ca_total_brut,
                              rc.cout_total_hors_foncier_brut, rc.sdpTotale,
                              surface, prof, foncier)
  IN  IF fallbackNeeded(foncier, info)
      THEN LET valeurResiduelle ==
                 Coalesce(premier.valeur_terrain_residuelle, 0)
               fe == [ mode |-> "saisi",
                       valeur_terrain_saisi |->
                         valeurSubstituee(valeurResiduelle) ]
           IN  [ foncierEffective |-> fe,
                 dvfInfo |->
                   [ info EXCEPT
                       !.human_message = "residuelle utilisee",
                       !.used_for_foncier = TRUE,
                       !.fallback_mode = "residuel_from_marge",
                       !.valeur_terrain_residuelle_utilisee =
                         valeurResiduelle ],
                 foncierEtMarge |->
                   computeFoncierEtMarge(rc.ca_total_brut,
                                         rc.cout_total_hors_foncier_brut,
                                         rc.sdpTotale, surface, prof, fe) ]
      ELSE [ foncierEffective |-> foncier, dvfInfo |-> info,
             foncierEtMarge |-> premier ]

\* lines 836-874
responsePayload(ruleset, source, ea, rc, fm, info) ==
  [ kind |-> "success", status |-> 200, success |-> TRUE,
    version |-> "promoteur-v1",
    inputs |-> [ parcel |-> body.parcel, plu |-> body.plu,
                 projet |-> body.projet, foncier |-> body.foncier,
                 plu_overrides |-> body.plu_overrides ],
    plu_ruleset |-> [ source |-> source, ruleset |-> ruleset ],
    etude_archi |-> ea,
    bilan_promoteur |->
      [ ventes |-> rc.ventes,
        couts |->
          [ foncier |-> fm.cout_foncier_effectif,
            construction |-> rc.couts_hors_foncier.construction,
            honoraires |-> rc.couts_hors_foncier.honoraires,
            frais_etudes |-> rc.couts_hors_foncier.frais_etudes,
            frais_commerciaux |-> rc.couts_hors_foncier.frais_commerciaux,
            frais_financiers |-> rc.couts_hors_foncier.frais_financiers,
            taxes |-> rc.couts_hors_foncier.taxes,
            cout_total |-> fm.cout_total_effectif ],
        marge |-> fm.marge,
        indicateurs |->
          [ valeur_residuelle_terrain_theorique |->
              fm.valeur_terrain_residuelle,
            marge_developpeur |-> fm.marge.appreciation ],
        foncier_detail |-> fm.foncier_detail,
        dvf_info |-> info ] ]

\* lines 795-879, run once the land-value input is settled
Finish(ruleset, source, prof, ea, rc, foncier, info) ==
  LET st == foncierStage(rc, surfaceTerrain, prof, foncier, info)
  IN  /\ foncierEffective' = st.foncierEffective
      /\ dvfInfo' = st.dvfInfo
      /\ foncierEtMarge' = st.foncierEtMarge
      /\ Return(responsePayload(ruleset, source, ea, rc, st.foncierEtMarge,
                                st.dvfInfo))

\* lines 749-793 up to the DVF query, then the rest when no query is made
AfterProfile(ruleset, source, prof) ==
  LET ea == computeEtudeArchi(surfaceTerrain, ruleset, body.projet)
      rc == computeRevenusEtCoutsHorsFoncier(ea, prof)
      foncier == foncierEffectiveOf(body.foncier)
  IN  /\ profil' = prof
      /\ etudeArchi' = ea
      /\ revenusCouts' = rc
      /\ dvf' = dvf
      /\ IF dvfRequested(foncier)
         THEN /\ pc' = "await_dvf"
              /\ issued' = Append(issued, "dvf")
              /\ foncierEffective' = foncier
              /\ UNCHANGED << dvfInfo, foncierEtMarge, response >>
         ELSE /\ issued' = issued
              /\ Finish(ruleset, source, prof, ea, rc, foncier, NoDvfInfo)

\* lines 646-648
Preflight ==
  /\ pc = "start"
  /\ method = "OPTIONS"
  /\ Return([ kind |-> "preflight", status |-> 200 ])
  /\ UNCHANGED << received, parked, ref,
                  dvfData, method, body, issued, answers, surfaceTerrain,
                  finalRuleset, finalPluSource, profil, etudeArchi,
                  revenusCouts, foncierEffective, dvf, dvfInfo,
                  foncierEtMarge >>

\* lines 651-662
MethodNotAllowed ==
  /\ pc = "start"
  /\ method \notin { "OPTIONS", "POST" }
  /\ Return(ErrorResponse(405, "methode_non_autorisee"))
  /\ UNCHANGED << received, parked, ref,
                  dvfData, method, body, issued, answers, surfaceTerrain,
                  finalRuleset, finalPluSource, profil, etudeArchi,
                  revenusCouts, foncierEffective, dvf, dvfInfo,
                  foncierEtMarge >>

\* the projet section left out of the test
requiredFieldsMissingNoProjet(b) == ~b.hasParcel \/ ~b.hasPlu

\* line 666
requiredFieldsMissing(b) == ~b.hasParcel \/ ~b.hasPlu \/ ~b.hasProjet

\* lines 694-711: the surface is settled; reject it or query the PLU
WithSurface(surface) ==
  /\ surfaceTerrain' = surface
  /\ IF surface = NULL
     THEN /\ Return(ErrorResponse(400, "surface_indeterminee"))
          /\ issued' = issued
     ELSE /\ pc' = "await_plu"
          /\ issued' = Append(issued, "plu")
          /\ response' = response

\* lines 664-692: the body is parsed, up to the first query
ParseBody ==
  /\ pc = "start"
  /\ method = "POST"
  /\ IF ~body.valid
     THEN /\ Return(ErrorResponse(500, "erreur_interne"))
          /\ UNCHANGED << issued, surfaceTerrain >>
     ELSE IF requiredFieldsMissing(body)
     THEN /\ Return(ErrorResponse(400, "champs_requis_manquants"))
          /\ UNCHANGED << issued, surfaceTerrain >>
     ELSE LET surface == body.parcel.surface_terrain_m2
          IN  IF surface = NULL /\ body.parcel.parcel_id # ""
              THEN /\ pc' = "await_cadastre"
                   /\ issued' = Append(issued, "cadastre")
                   /\ UNCHANGED << surfaceTerrain, response >>
              ELSE WithSurface(surface)
  /\ UNCHANGED << received, parked, ref,
                  dvfData, method, body, answers, finalRuleset, finalPluSource, profil,
                  etudeArchi, revenusCouts, foncierEffective, dvf, dvfInfo,
                  foncierEtMarge >>

\* line 691 resumes
CadastreReturns ==
  /\ pc = "await_cadastre"
  /\ \E answer \in CadastreAnswers :
       /\ answers' = Append(answers, answer.kind)
       /\ received' = Received(answer)
       /\ IF answer.kind = "throws"
          THEN /\ Return(ErrorResponse(500, "erreur_interne"))
               /\ UNCHANGED << issued, surfaceTerrain >>
          ELSE WithSurface(fetchSurfaceFromCadastre(answer))
  /\ UNCHANGED << parked, ref,
                  dvfData, method, body, finalRuleset, finalPluSource, profil,
                  etudeArchi, revenusCouts, foncierEffective, dvf, dvfInfo,
                  foncierEtMarge >>

\* an error of the query taken for a lookup without a row
fetchPluRulesetErrorAsMiss(answer) ==
  IF answer.kind = "throws"
  THEN [ thrown |-> TRUE, ruleset |-> Null, hasMeta |-> FALSE ]
  ELSE IF answer.kind \in { "error", "miss" }
  THEN [ thrown |-> FALSE, ruleset |-> Null, hasMeta |-> FALSE ]
  ELSE [ thrown |-> FALSE,
         ruleset |-> IF Truthy(answer.ruleset) THEN answer.ruleset
                     ELSE Obj(<<>>),
         hasMeta |-> TRUE ]

\* lines 173-191: <<ruleset, meta present>>, or the thrown error
fetchPluRuleset(answer) ==
  IF answer.kind \in { "throws", "error" }
  THEN [ thrown |-> TRUE, ruleset |-> Null, hasMeta |-> FALSE ]
  ELSE IF answer.kind = "miss"
  THEN [ thrown |-> FALSE, ruleset |-> Null, hasMeta |-> FALSE ]
  ELSE [ thrown |-> FALSE,
         ruleset |-> IF Truthy(answer.ruleset) THEN answer.ruleset
                     ELSE Obj(<<>>),
         hasMeta |-> TRUE ]

\* line 713
hasOverridesOf(pluOverrides) ==
  pluOverrides.present /\ Truthy(pluOverrides.ruleset)

\* any plu_overrides object taken for an override ruleset
pluNotFoundAnyOverrides(rulesetFromDb, pluOverrides) ==
  ~Truthy(rulesetFromDb) /\ ~pluOverrides.present

\* line 715
pluNotFound(rulesetFromDb, pluOverrides) ==
  ~Truthy(rulesetFromDb) /\ ~hasOverridesOf(pluOverrides)

\* the override merged field by field over the looked-up ruleset
finalRulesetMerged(rulesetFromDb, pluOverrides) ==
  IF pluOverrides.present /\ pluOverrides.ruleset # Null
  THEN deepMerge(rulesetFromDb, pluOverrides.ruleset)
  ELSE rulesetFromDb

\* lines 733-735
finalRulesetOf(rulesetFromDb, pluOverrides) ==
  IF pluOverrides.present /\ pluOverrides.ruleset # Null
  THEN pluOverrides.ruleset
  ELSE rulesetFromDb

\* lines 737-744
finalPluSourceOf(hasMeta, pluOverrides) ==
  LET hasSource == pluOverrides.present /\ pluOverrides.hasSource
  IN  IF ~hasMeta /\ ~hasSource THEN [ isNull |-> TRUE ]
      ELSE [ isNull |-> FALSE,
             id |-> IF hasMeta THEN DbPluMeta.id ELSE "",
             plu_source_url |-> IF hasSource THEN "manual" ELSE "",
             plu_source_type |->
               IF hasMeta THEN DbPluMeta.plu_source_type ELSE "override" ]

\* line 711 resumes, up to the profile query (lines 231-236) or, without
\* a profile_code, up to the DVF query or the end
PluReturns ==
  /\ pc = "await_plu"
  /\ \E answer \in PluAnswers :
       /\ answers' = Append(answers, answer.kind)
       /\ received' = Received(answer)
       /\ LET plu == fetchPluRuleset(answer)
              ruleset == finalRulesetOf(plu.ruleset, body.plu_overrides)
              source == finalPluSourceOf(plu.hasMeta, body.plu_overrides)
          IN  IF plu.thrown
              THEN /\ Return(ErrorResponse(500, "erreur_interne"))
                   /\ UNCHANGED << issued, finalRuleset, finalPluSource, profil,
                                   etudeArchi, revenusCouts, foncierEffective,
                                   dvf, dvfInfo, foncierEtMarge >>
              ELSE IF pluNotFound(plu.ruleset, body.plu_overrides)
              THEN /\ Return(ErrorResponse(404, "aucun_plu"))
                   /\ UNCHANGED << issued, finalRuleset, finalPluSource, profil,
                                   etudeArchi, revenusCouts, foncierEffective,
                                   dvf, dvfInfo, foncierEtMarge >>
              ELSE /\ finalRuleset' = ruleset
                   /\ finalPluSource' = source
                   /\ IF profileLookupNeeded(body.financement)
                      THEN /\ pc' = "await_profile"
                           /\ issued' = Append(issued, "profile")
                           /\ UNCHANGED << profil, etudeArchi, revenusCouts,
                                           foncierEffective, dvf, dvfInfo,
                                           foncierEtMarge, response >>
                      ELSE AfterProfile(ruleset, source,
                             fetchPromoteurProfileDefault(body.financement))
  /\ UNCHANGED << parked, ref,
                  dvfData, method, body, surfaceTerrain >>

\* line 236 resumes, up to the DVF query or the end
ProfileReturns ==
  /\ pc = "await_profile"
  /\ \E answer \in ProfileAnswers :
       /\ answers' = Append(answers, answer.kind)
       /\ received' = Received(answer)
       /\ IF answer.kind = "throws"
          THEN /\ Return(ErrorResponse(500, "erreur_interne"))
               /\ UNCHANGED << issued, profil, etudeArchi, revenusCouts,
                               foncierEffective, dvf, dvfInfo,
                               foncierEtMarge >>
          ELSE AfterProfile(finalRuleset, finalPluSource,
                 fetchPromoteurProfileFromDb(body.financement, answer))
  /\ UNCHANGED << parked, ref,
                  dvfData, method, body, surfaceTerrain, finalRuleset,
                  finalPluSource >>

\* line 312 resumes, up to the end
DvfReturns ==
  /\ pc = "await_dvf"
  /\ \E answer \in DvfAnswers :
       LET d == estimateFoncierFromDvfByCommune(answer, surfaceTerrain)
           st == dvfStage(foncierEffective, d)
       IN  /\ answers' = Append(answers, answer.kind)
           /\ received' = Received(answer)
           /\ dvfData' = answer.rows
           /\ dvf' = d
           /\ Finish(finalRuleset, finalPluSource, profil, etudeArchi,
                     revenusCouts, st[1], st[2])
  /\ UNCHANGED << parked, ref,
                  method, body, issued, surfaceTerrain, finalRuleset,
                  finalPluSource, profil, etudeArchi, revenusCouts >>

Next ==
  \/ Preflight
  \/ MethodNotAllowed
  \/ ParseBody
  \/ CadastreReturns
  \/ PluReturns
  \/ ProfileReturns
  \/ DvfReturns

Spec == Init /\ [][Next]_vars

\* ---------------------------------------------------------------------
\* The calculation stages run on terrains of some hundred m2
\* ---------------------------------------------------------------------
\* the variables of the handler
handlerVars ==
  << pc, method, body, issued, answers, surfaceTerrain, finalRuleset,
     finalPluSource, profil, etudeArchi, revenusCouts, foncierEffective, dvf,
     dvfInfo, foncierEtMarge, response, dvfData, received, parked >>

\* terrain surfaces in m2
RefTerrains == { 100 * k : k \in 1..5 }

RefRulesets ==
  { Obj(<<>>), Ruleset(60, NULL, 30, NULL), Ruleset(60, NULL, 95, NULL),
    Ruleset(60, NULL, 150, NULL), Ruleset(40, NULL, 150, NULL) }

RefProfils ==
  { fetchPromoteurProfileFromDb(BaseBody.financement, answer) :
      answer \in { a \in ProfileAnswers : a.kind = "found" } }

RefInit ==
  /\ pc = "start"
  /\ method = "POST"
  /\ body = BaseBody
  /\ issued = <<>>
  /\ answers = <<>>
  /\ surfaceTerrain = NULL
  /\ finalRuleset = Null
  /\ finalPluSource = Unset
  /\ profil = Unset
  /\ etudeArchi = Unset
  /\ revenusCouts = Unset
  /\ foncierEffective = Unset
  /\ dvf = Unset
  /\ dvfData = <<>>
  /\ dvfInfo = NoDvfInfo
  /\ foncierEtMarge = Unset
  /\ response = NoResponse
  /\ received = <<>>
  /\ parked = Alone
  /\ ref \in [ stage : { "inputs" }, terrain : RefTerrains,
                ruleset : RefRulesets, profil : RefProfils,
                etudeArchi : { Unset }, revenusCouts : { Unset },
                valeurTerrainResiduelle : { NULL } ]

\* the floor area of the envelope carried in whole m2: the revenue is then
\* in EUR and the costs in 1e-2 EUR, which 32 bits hold for these terrains
inWholeM2(ea) ==
  [ ea EXCEPT !.sdp_totale_potentielle_m2 = @ \div 100 ]

\* lines 749-753
RefEtudeArchi ==
  /\ ref.stage = "inputs"
  /\ ref' = [ ref EXCEPT
                !.stage = "etude_archi",
                !.etudeArchi =
                  computeEtudeArchi(M2(ref.terrain), ref.ruleset,
                                    BaseBody.projet) ]
  /\ UNCHANGED handlerVars

\* lines 755-757
RefRevenusCouts ==
  /\ ref.stage = "etude_archi"
  /\ ref.etudeArchi.sdp_totale_potentielle_m2 % 100 = 0
  /\ ref' = [ ref EXCEPT
                !.stage = "revenus_couts",
                !.revenusCouts =
                  computeRevenusEtCoutsHorsFoncier(inWholeM2(ref.etudeArchi),
                                                   ref.profil) ]
  /\ UNCHANGED handlerVars

\* lines 555-561
RefFoncier ==
  /\ ref.stage = "revenus_couts"
  /\ ref' = [ ref EXCEPT
                !.stage = "foncier",
                !.valeurTerrainResiduelle =
                  valeurTerrainResiduelleOf(
                    ref.revenusCouts.ca_total_brut,
                    ref.revenusCouts.cout_total_hors_foncier_brut,
                    Param(ref.profil,
                          <<"objectif", "marge_cible_pct_sur_ca">>, 12)) ]
  /\ UNCHANGED handlerVars

RefNext ==
  \/ RefEtudeArchi
  \/ RefRevenusCouts
  \/ RefFoncier

RefSpec == RefInit /\ [][RefNext]_vars

\* ---------------------------------------------------------------------
\* Two invocations interleaved at their awaits
\* ---------------------------------------------------------------------
\* the locals of the running invocation (every one is declared inside the
\* handler or inside the function it calls)
locals ==
  [ pc |-> pc,
    method |-> method,
    body |-> body,
    issued |-> issued,
    answers |-> answers,
    received |-> received,
    surfaceTerrain |-> surfaceTerrain,
    finalRuleset |-> finalRuleset,
    finalPluSource |-> finalPluSource,
    profil |-> profil,
    etudeArchi |-> etudeArchi,
    revenusCouts |-> revenusCouts,
    foncierEffective |-> foncierEffective,
    dvf |-> dvf,
    dvfData |-> dvfData,
    dvfInfo |-> dvfInfo,
    foncierEtMarge |-> foncierEtMarge,
    response |-> response ]

\* the locals of an invocation that has not started
freshLocals(m, b) ==
  [ pc |-> "start",
    method |-> m,
    body |-> b,
    issued |-> <<>>,
    answers |-> <<>>,
    received |-> <<>>,
    surfaceTerrain |-> NULL,
    finalRuleset |-> Null,
    finalPluSource |-> Unset,
    profil |-> Unset,
    etudeArchi |-> Unset,
    revenusCouts |-> Unset,
    foncierEffective |-> Unset,
    dvf |-> Unset,
    dvfData |-> <<>>,
    dvfInfo |-> NoDvfInfo,
    foncierEtMarge |-> Unset,
    response |-> NoResponse ]

\* a local hoisted to module level: the suspended invocation finds in it
\* what the running one left there
restoreSharedRuleset(saved, running) ==
  [ saved EXCEPT !.finalRuleset = running.finalRuleset ]

\* the locals an invocation finds when it is resumed: its own
restore(saved, running) == saved

\* the event loop runs one invocation from an await to the next; at an
\* await, or once it returned, the other invocation is the one resumed
Switch ==
  /\ parked # Alone
  /\ LET resumed == restore(parked, locals)
     IN
       /\ pc' = resumed.pc
       /\ method' = resumed.method
       /\ body' = resumed.body
       /\ issued' = resumed.issued
       /\ answers' = resumed.answers
       /\ received' = resumed.received
       /\ surfaceTerrain' = resumed.surfaceTerrain
       /\ finalRuleset' = resumed.finalRuleset
       /\ finalPluSource' = resumed.finalPluSource
       /\ profil' = resumed.profil
       /\ etudeArchi' = resumed.etudeArchi
       /\ revenusCouts' = resumed.revenusCouts
       /\ foncierEffective' = resumed.foncierEffective
       /\ dvf' = resumed.dvf
       /\ dvfData' = resumed.dvfData
       /\ dvfInfo' = resumed.dvfInfo
       /\ foncierEtMarge' = resumed.foncierEtMarge
       /\ response' = resumed.response
       /\ parked' = locals
  /\ UNCHANGED ref

\* a request that takes every await of the handler
LongBody ==
  [ BaseBody EXCEPT !.parcel.surface_terrain_m2 = NULL ]

\* a request with a terrain, a declared land value and rates of its own
ShortBody ==
  [ BaseBody EXCEPT
      !.parcel = [ parcel_id |-> "", surface_terrain_m2 |-> M2(MaxSurfaceM2) ],
      !.financement = [ present |-> TRUE, profile_code |-> "",
                        overrides |-> FinancementOverrides ],
      !.foncier = [ present |-> TRUE, mode |-> "saisi",
                    valeur_terrain_saisi |-> Euro(3000) ],
      !.plu_overrides = [ present |-> FALSE, ruleset |-> Null,
                          hasSource |-> FALSE ] ]

\* <<the request of the invocation that starts, the request of the other>>
ConcRequests ==
  { << << "POST", LongBody >>, << "POST", ShortBody >> >>,
    << << "POST", ShortBody >>, << "POST", ShortBody >> >>,
    << << "POST", ShortBody >>, << "GET", ShortBody >> >>,
    << << "OPTIONS", LongBody >>, << "POST", LongBody >> >> }

ConcInit ==
  \E pair \in ConcRequests :
    /\ pc = "start"
    /\ method = pair[1][1]
    /\ body = pair[1][2]
    /\ issued = <<>>
    /\ answers = <<>>
    /\ received = <<>>
    /\ surfaceTerrain = NULL
    /\ finalRuleset = Null
    /\ finalPluSource = Unset
    /\ profil = Unset
    /\ etudeArchi = Unset
    /\ revenusCouts = Unset
    /\ foncierEffective = Unset
    /\ dvf = Unset
    /\ dvfData = <<>>
    /\ dvfInfo = NoDvfInfo
    /\ foncierEtMarge = Unset
    /\ response = NoResponse
    /\ ref = NoRef
    /\ parked = freshLocals(pair[2][1], pair[2][2])

ConcNext ==
  \/ Next
  \/ Switch

ConcSpec == ConcInit /\ [][ConcNext]_vars

\* the handler always resumes after an await and runs to its next await
FairSpec == Spec /\ WF_vars(Next)

TypeOK == pc \in { "start", "await_cadastre", "await_plu", "await_profile",
                   "await_dvf", "done" }

\* ---------------------------------------------------------------------
\* Properties
\* ---------------------------------------------------------------------
Range(seq) == { seq[i] : i \in DOMAIN seq }

Done == pc = "done"
Success == pc = "done" /\ response.kind = "success"

\* the i-th query issued is answered by the i-th answer
Answered(query, kinds) ==
  \E i \in DOMAIN answers : issued[i] = query /\ answers[i] \in kinds

MarketRequested == body.foncier.present /\ body.foncier.mode = "dvf"
MarketUnresolved == dvf # Unset /\ dvf.valeur_terrain = NULL
ProfileLookupFailed == Answered("profile", { "miss", "error" })

\* C1: for a request in market (dvf) mode, the mode recorded as used is the
\* market method only if the comparables estimate resolved, and an
\* unresolved market method is recorded as mode used = residual together
\* with the fallback flag (stated for a positive terrain area).
C1_ModeUsedRecorded ==
  (Success /\ MarketRequested /\ surfaceTerrain > 0) =>
    LET detail == response.bilan_promoteur.foncier_detail
        info == response.bilan_promoteur.dvf_info
    IN  /\ detail.mode = "dvf" => ~MarketUnresolved
        /\ MarketUnresolved =>
             /\ detail.mode = "residuel"
             /\ info.fallback_mode = "residuel_from_marge"

\* C2: when market mode is requested and unresolved, the land cost of the
\* cost total is the residual value whatever its sign, and the substituted
\* value recorded in the response is the land cost used (whole euros; for
\* a positive terrain and floor area).
C2_FallbackUsesResidual ==
  ( /\ Success /\ MarketRequested /\ MarketUnresolved
    /\ surfaceTerrain > 0 /\ etudeArchi.sdp_totale_potentielle_m2 > 0 ) =>
    LET bilan == response.bilan_promoteur
    IN  /\ bilan.couts.foncier = bilan.foncier_detail.valeur_terrain_residuelle
        /\ bilan.dvf_info.valeur_terrain_residuelle_utilisee
             = bilan.couts.foncier

\* C3: a request whose terrain area is <= 0 ends in an error response and
\* no envelope or bilan is computed from it.
C3_NonPositiveSurfaceRejected ==
  (Done /\ surfaceTerrain # NULL /\ surfaceTerrain <= 0) =>
    /\ response.kind = "error"
    /\ etudeArchi = Unset
    /\ revenusCouts = Unset

\* C4: a request missing a required top-level section is answered with the
\* invalid-input error in the very step that parses it: no lookup is
\* issued, no envelope and no bilan is computed.
C4_MissingSectionRejected ==
  ( /\ method = "POST" /\ body.valid
    /\ (~body.hasParcel \/ ~body.hasPlu \/ ~body.hasProjet) ) =>
    /\ pc \in { "start", "done" }
    /\ issued = <<>>
    /\ etudeArchi = Unset /\ revenusCouts = Unset /\ foncierEtMarge = Unset
    /\ Done => response = ErrorResponse(400, "champs_requis_manquants")

C4_Witness ==
  /\ Done /\ method = "POST" /\ body.valid /\ ~body.hasProjet
  /\ body.hasParcel /\ body.hasPlu
  /\ response.status = 400

\* C5: when the zoning lookup cleanly finds no ruleset and the request
\* carries no override ruleset, the invocation ends there in a not-found
\* outcome (404, neither the 400 nor the 500), nothing else ends in that
\* outcome, and no profile lookup, comparables query or bilan follows.
C5_PluNotFoundIsDistinct ==
  LET noOverrideRuleset ==
        ~(body.plu_overrides.present /\ body.plu_overrides.ruleset.t = "obj")
  IN  /\ (Answered("plu", { "miss" }) /\ noOverrideRuleset) =>
            /\ Done
            /\ response.kind = "error" /\ response.status = 404
            /\ response.status \notin { 400, 500 }
            /\ "profile" \notin Range(issued) /\ "dvf" \notin Range(issued)
            /\ profil = Unset /\ etudeArchi = Unset
            /\ revenusCouts = Unset /\ foncierEtMarge = Unset
      /\ (Done /\ response.status = 404) =>
            Answered("plu", { "miss" }) /\ noOverrideRuleset

C5_Witness ==
  /\ Done /\ response.status = 404
  /\ body.plu_overrides.present /\ body.plu_overrides.ruleset = Null

\* C6: a failed profile lookup (miss or error) or a failed comparables
\* query (error, exception, too few samples) never ends the invocation in
\* an error: it ends in a success response, computed with the default
\* profile (merged with the overrides), respectively with the residual
\* fallback.
C6_LookupFailuresDegrade ==
  /\ ProfileLookupFailed =>
       /\ profil.source = "default"
       /\ profil.code = body.financement.profile_code
       /\ profil.params
            = ( IF body.financement.overrides.t = "obj"
                THEN deepMerge(defaults, body.financement.overrides)
                ELSE defaults )
       /\ pc \in { "await_dvf", "done" }
       /\ Done => response.kind = "success" /\ response.status = 200
  /\ MarketUnresolved =>
       /\ Done /\ response.kind = "success" /\ response.status = 200
       /\ response.bilan_promoteur.dvf_info.fallback_mode
            = "residuel_from_marge"
       /\ response.bilan_promoteur.couts.foncier
            = Max(0, response.bilan_promoteur.foncier_detail
                       .valeur_terrain_residuelle)

C6_Witness ==
  /\ Success
  /\ Answered("profile", { "error" })
  /\ Answered("dvf", { "throws" })

\* the response the handler builds from the same request and the same
\* answers when the profile row prof is the one it computes with
responseWithProfile(prof) ==
  LET rc == computeRevenusEtCoutsHorsFoncier(etudeArchi, prof)
      foncier == foncierEffectiveOf(body.foncier)
      pre == IF dvfRequested(foncier) THEN dvfStage(foncier, dvf)
             ELSE << foncier, NoDvfInfo >>
      st == foncierStage(rc, surfaceTerrain, prof, pre[1], pre[2])
  IN  responsePayload(finalRuleset, finalPluSource, etudeArchi, rc,
                      st.foncierEtMarge, st.dvfInfo)

\* C7: when a requested profile failed its lookup and the default profile
\* was used, the success response differs from the response computed with
\* the requested profile found in the table (holding the same params);
\* stated for a positive terrain area.
C7_DefaultProfileAnnotated ==
  (Success /\ ProfileLookupFailed /\ surfaceTerrain > 0) =>
    response # responseWithProfile([ profil EXCEPT !.source = "db" ])

\* C8: the comparables query is issued only when the requested mode is
\* market (dvf), at most once per invocation, and never in declared
\* (saisi) mode.
C8_DvfQueryOnlyInMarketMode ==
  /\ Cardinality({ i \in DOMAIN issued : issued[i] = "dvf" }) <= 1
  /\ "dvf" \in Range(issued) => MarketRequested
  /\ (body.foncier.present /\ body.foncier.mode = "saisi") =>
       "dvf" \notin Range(issued)

C8_Witness ==
  /\ Success
  /\ body.foncier.present /\ body.foncier.mode = "saisi"
  /\ body.foncier.valeur_terrain_saisi > 0
  /\ response.bilan_promoteur.couts.foncier > 0
  /\ "dvf" \notin Range(issued)

\* C9: in every success response (for a positive terrain area) the total
\* floor area is >= 0 and 0 <= footprint <= terrain area, whatever the
\* ruleset holds.
C9_EnvelopeWithinTerrain ==
  (Success /\ surfaceTerrain > 0) =>
    LET ea == response.etude_archi
    IN  /\ ea.sdp_totale_potentielle_m2 >= 0
        /\ ea.emprise_autorisee_m2 >= 0
        /\ ea.emprise_autorisee_m2 <= ea.surface_terrain_m2

\* the ratio and the cap the ruleset in force holds (NULL when unset)
RulesetRatio ==
  IF Get(Get(finalRuleset, "emprise_sol"), "max_ratio").t = "num"
  THEN Get(Get(finalRuleset, "emprise_sol"), "max_ratio").v
  ELSE NULL
RulesetCap ==
  IF Get(Get(finalRuleset, "emprise_sol"), "max_m2").t = "num"
  THEN Get(Get(finalRuleset, "emprise_sol"), "max_m2").v
  ELSE NULL

\* C10: for a terrain area A > 0 and a footprint ratio r in (0, 1] (0.6
\* when unset) the footprint is A.r without a cap and min(cap, A.r) with
\* one, and is <= A; the envelope reports it to 0.01 m2.
C10_Footprint ==
  ( /\ etudeArchi # Unset /\ surfaceTerrain > 0
    /\ (RulesetRatio = NULL \/ (RulesetRatio > 0 /\ RulesetRatio <= 100)) ) =>
    LET r == IF RulesetRatio = NULL THEN 60 ELSE RulesetRatio
        \* 1e-4 m2
        expected == IF RulesetCap = NULL \/ surfaceTerrain * r <= RulesetCap * 100
                    THEN surfaceTerrain * r
                    ELSE RulesetCap * 100
    IN  /\ empriseAutoriseeM2(surfaceTerrain, finalRuleset) = expected
        /\ expected <= surfaceTerrain * 100
        /\ 100 * etudeArchi.emprise_autorisee_m2 - expected \in -50..50
        /\ etudeArchi.emprise_autorisee_m2 <= surfaceTerrain

C10_Witness ==
  /\ etudeArchi # Unset /\ surfaceTerrain > 0
  /\ RulesetRatio # NULL /\ RulesetRatio > 0 /\ RulesetRatio <= 100
  /\ RulesetCap # NULL /\ RulesetCap > 0
  /\ RulesetCap * 100 < surfaceTerrain * RulesetRatio
  /\ etudeArchi.emprise_autorisee_m2 = RulesetCap

RulesetHauteur ==
  IF Get(Get(finalRuleset, "hauteur"), "hauteur_max_m").t = "num"
  THEN Get(Get(finalRuleset, "hauteur"), "hauteur_max_m").v
  ELSE NULL

\* C11: the level count of every envelope result is floor(H / 3 m) with a
\* minimum of 1, H being the height the ruleset in force holds (15 m when
\* unset, giving 5 levels; a height below 3 m gives 1 level); levels >= 1.
C11_Levels ==
  etudeArchi # Unset =>
    LET H == IF RulesetHauteur = NULL THEN 150 ELSE RulesetHauteur
        levels == etudeArchi.nb_niveaux_possibles
    IN  /\ levels >= 1
        /\ etudeArchi.hauteur_max_m = H
        /\ H >= 30 => /\ 30 * levels <= H
                       /\ H < 30 * (levels + 1)
        /\ H < 30 => levels = 1
        /\ RulesetHauteur = NULL => levels = 5

C11_Witness ==
  /\ Success /\ surfaceTerrain > 0
  /\ RulesetHauteur = 95
  /\ response.etude_archi.nb_niveaux_possibles = 3

\* the ruleset in force leaves section.key unknown (absent or null)
RulesetUnknown(section, key) ==
  Get(Get(finalRuleset, section), key).t # "num"

\* C12: every envelope field the ruleset in force leaves unknown is mapped
\* to its documented constant (ratio 0.6, height 15 m) or kept unknown
\* (the three setbacks); none is turned into 0 (positive terrain area).
C12_UnknownNeverZero ==
  (etudeArchi # Unset /\ surfaceTerrain > 0) =>
    /\ (RulesetUnknown("emprise_sol", "max_ratio")
          /\ RulesetUnknown("emprise_sol", "max_m2")) =>
         /\ etudeArchi.emprise_autorisee_m2 # 0
         /\ etudeArchi.emprise_autorisee_m2
              = RoundQuot(surfaceTerrain * 60, 100)
    /\ RulesetUnknown("hauteur", "hauteur_max_m") =>
         etudeArchi.hauteur_max_m = 150
    /\ RulesetUnknown("implantation", "retrait_rue_m") =>
         etudeArchi.retraits.rue_m = NULL
    /\ RulesetUnknown("implantation", "retrait_fond_parcelle_m") =>
         etudeArchi.retraits.fond_m = NULL
    /\ RulesetUnknown("implantation", "retrait_lateraux_m") =>
         etudeArchi.retraits.lateraux_m = NULL

\* C13: in a success response (positive terrain area) the margin ratio is
\* null when the total revenue is 0, and numeric only when it is > 0.
C13_RatioNullWithoutRevenue ==
  (Success /\ surfaceTerrain > 0) =>
    LET taux == response.bilan_promoteur.marge.taux_sur_ca
    IN  /\ revenusCouts.ca_total_brut = 0 => taux = NULL
        /\ taux # NULL => revenusCouts.ca_total_brut > 0

\* the target margin of the profile in force, percent
TargetMargin ==
  Param(profil, <<"objectif", "marge_cible_pct_sur_ca">>, 12)

\* the land cost of the final land-value resolution, 1e-4 EUR
LandCostUsed ==
  IF /\ foncierEffective.mode = "saisi"
     /\ foncierEffective.valeur_terrain_saisi # NULL
     /\ foncierEffective.valeur_terrain_saisi > 0
  THEN foncierEffective.valeur_terrain_saisi
  ELSE 0

\* the margin amount before rounding, 1e-4 EUR
MarginAmount ==
  revenusCouts.ca_total_brut * 100
    - (revenusCouts.cout_total_hors_foncier_brut + LandCostUsed)

\* C14: with m = margin amount / total revenue and T the target margin,
\* the band of a success response is very comfortable iff m >= T + 0.05,
\* comfortable iff T <= m < T + 0.05, tight iff T - 0.03 <= m < T and low
\* otherwise (m = T comfortable, m = T - 0.03 tight, just below low); it
\* is never the initial "inconnu".
C14_Bands ==
  Success =>
    LET band == response.bilan_promoteur.marge.appreciation
        ca == revenusCouts.ca_total_brut
        T == TargetMargin
    IN  /\ band \in { "tres confortable", "confortable", "tendue", "faible" }
        /\ response.bilan_promoteur.indicateurs.marge_developpeur = band
        /\ ca > 0 =>
             /\ band = "tres confortable" <=> MarginAmount >= (T + 5) * ca
             /\ band = "confortable" <=>
                  /\ MarginAmount >= T * ca
                  /\ MarginAmount < (T + 5) * ca
             /\ band = "tendue" <=>
                  /\ MarginAmount >= (T - 3) * ca
                  /\ MarginAmount < T * ca
             /\ band = "faible" <=> MarginAmount < (T - 3) * ca

C14_Witness ==
  /\ Success /\ surfaceTerrain > 0
  /\ revenusCouts.ca_total_brut > 0
  /\ MarginAmount = (TargetMargin - 3) * revenusCouts.ca_total_brut
  /\ response.bilan_promoteur.marge.appreciation = "tendue"

\* total revenue x (1 - target margin) - cost excluding land, 1e-4 EUR
ResidualValue ==
  revenusCouts.ca_total_brut * (100 - TargetMargin)
    - revenusCouts.cout_total_hors_foncier_brut

\* C15: for a request in residual mode (positive terrain area) the land
\* value of the cost stack is the residual value: the land cost reported is
\* the residual value and cost_total = cost excluding land + residual
\* value (whole euros).
C15_ResidualModeUsesResidual ==
  ( /\ Success /\ surfaceTerrain > 0
    /\ body.foncier.present /\ body.foncier.mode = "residuel" ) =>
    LET bilan == response.bilan_promoteur
    IN  /\ bilan.couts.foncier = round(ResidualValue, 10000)
        /\ bilan.couts.cout_total
             = round(revenusCouts.cout_total_hors_foncier_brut
                       + ResidualValue, 10000)

\* C16: for a request in declared mode carrying a declared value (positive,
\* zero or negative; positive terrain area) the land cost of cost_total is
\* that value and the mode reported is declared.
C16_DeclaredValueAsIs ==
  ( /\ Success /\ surfaceTerrain > 0
    /\ body.foncier.present /\ body.foncier.mode = "saisi"
    /\ body.foncier.valeur_terrain_saisi # NULL ) =>
    LET bilan == response.bilan_promoteur
        declared == body.foncier.valeur_terrain_saisi
    IN  /\ bilan.foncier_detail.mode = "saisi"
        /\ bilan.couts.foncier = round(declared, 10000)
        /\ bilan.couts.cout_total
             = round(revenusCouts.cout_total_hors_foncier_brut + declared,
                     10000)

\* C17: in every success response, whatever the mode, the land cost
\* reported is the one of the final (post-fallback) land-value resolution,
\* cost_total = cost excluding land + that land cost and margin amount =
\* total revenue - cost_total (each reported to the euro); after a
\* fallback the response carries the figures of the second pass.
C17_CostStackIdentity ==
  Success =>
    LET bilan == response.bilan_promoteur
        coutTotal == revenusCouts.cout_total_hors_foncier_brut + LandCostUsed
    IN  /\ bilan.couts.foncier = round(LandCostUsed, 10000)
        /\ bilan.couts.cout_total = round(coutTotal, 10000)
        /\ bilan.marge.montant
             = round(revenusCouts.ca_total_brut * 100 - coutTotal, 10000)
        /\ bilan.foncier_detail.mode
             = ( IF foncierEffective.mode \in FoncierModes
                 THEN foncierEffective.mode ELSE "none" )
        /\ MarketUnresolved => bilan.foncier_detail.mode # "dvf"

C17_Witness ==
  /\ Success /\ surfaceTerrain > 0
  /\ MarketRequested /\ MarketUnresolved
  /\ response.bilan_promoteur.couts.foncier > 0
  /\ response.bilan_promoteur.couts.foncier
       = response.bilan_promoteur.dvf_info.valeur_terrain_residuelle_utilisee

\* the residual value computeFoncierEtMarge reports for the revenue, cost
\* and profile of the state and the land-value input foncier
ResidualFor(foncier) ==
  computeFoncierEtMarge(revenusCouts.ca_total_brut,
                        revenusCouts.cout_total_hors_foncier_brut,
                        revenusCouts.sdpTotale, surfaceTerrain, profil,
                        foncier).valeur_terrain_residuelle

\* C18: every success response, whatever the mode, carries the residual
\* value total revenue x (1 - target margin) - cost excluding land (to the
\* euro); it depends on revenue, cost and target margin only: the second
\* pass of the fallback and a recomputation under any land-value input
\* give the value of the first pass.
C18_ResidualValue ==
  Success =>
    LET bilan == response.bilan_promoteur
        residual == bilan.indicateurs.valeur_residuelle_terrain_theorique
    IN  /\ residual # NULL
        /\ residual = round(ResidualValue, 10000)
        /\ bilan.foncier_detail.valeur_terrain_residuelle = residual
        /\ MarketUnresolved =>
             bilan.dvf_info.valeur_terrain_residuelle_utilisee = residual
        /\ \A mode \in FoncierModes :
             /\ ResidualFor([ mode |-> mode,
                              valeur_terrain_saisi |-> NULL ]) = residual
             /\ ResidualFor([ mode |-> mode,
                              valeur_terrain_saisi |-> Euro(3000) ])
                  = residual

C18_Witness ==
  /\ Success /\ surfaceTerrain > 0
  /\ MarketRequested /\ MarketUnresolved
  /\ response.bilan_promoteur.indicateurs
       .valeur_residuelle_terrain_theorique < 0
  /\ response.bilan_promoteur.dvf_info.valeur_terrain_residuelle_utilisee
       = response.bilan_promoteur.indicateurs
           .valeur_residuelle_terrain_theorique

\* C19: revenue = area x price and construction = area x cost (summed
\* over the uses; commerce and offices have area 0), honoraria and
\* design-study fees = construction x ratio, commercial, financing and tax
\* fees = revenue x ratio, and cost excluding land = construction + the
\* five fee lines; the response reports each line to the euro.
C19_RevenueCostModel ==
  revenusCouts # Unset =>
    LET area == etudeArchi.sdp_totale_potentielle_m2
        \* cents
        revenue ==
          area * Param(profil, <<"ventes", "logement", "prix_vente_m2">>, 7000)
        construction ==
          area * Param(profil, <<"couts", "construction", "logement_m2">>,
                       2300)
        \* 1e-4 EUR
        honoraires ==
          construction * Param(profil, <<"couts", "honoraires_pct">>, 5)
        fraisEtudes ==
          construction * Param(profil, <<"couts", "frais_etudes_pct">>, 2)
        fraisCommerciaux ==
          revenue * Param(profil, <<"couts", "frais_commerciaux_pct">>, 3)
        fraisFinanciers ==
          revenue * Param(profil, <<"couts", "frais_financiers_pct">>, 4)
        taxes == revenue * Param(profil, <<"couts", "taxes_pct">>, 3)
        lines == revenusCouts.couts_hors_foncier
    IN  /\ revenusCouts.ca_total_brut = revenue
        /\ revenusCouts.ventes.logement.ca = RoundQuot(revenue, 100)
        /\ revenusCouts.ventes.commerce.ca = 0
        /\ revenusCouts.ventes.bureaux.ca = 0
        /\ revenusCouts.ventes.ca_total = RoundQuot(revenue, 100)
        /\ lines.construction = RoundQuot(construction, 100)
        /\ lines.honoraires = RoundQuot(honoraires, 10000)
        /\ lines.frais_etudes = RoundQuot(fraisEtudes, 10000)
        /\ lines.frais_commerciaux = RoundQuot(fraisCommerciaux, 10000)
        /\ lines.frais_financiers = RoundQuot(fraisFinanciers, 10000)
        /\ lines.taxes = RoundQuot(taxes, 10000)
        /\ revenusCouts.cout_total_hors_foncier_brut
             = construction * 100 + honoraires + fraisEtudes
                 + fraisCommerciaux + fraisFinanciers + taxes
        /\ Success =>
             /\ response.bilan_promoteur.ventes = revenusCouts.ventes
             /\ response.bilan_promoteur.couts.construction
                  = lines.construction
             /\ response.bilan_promoteur.couts.honoraires = lines.honoraires
             /\ response.bilan_promoteur.couts.frais_etudes
                  = lines.frais_etudes
             /\ response.bilan_promoteur.couts.frais_commerciaux
                  = lines.frais_commerciaux
             /\ response.bilan_promoteur.couts.frais_financiers
                  = lines.frais_financiers
             /\ response.bilan_promoteur.couts.taxes = lines.taxes

C19_Witness ==
  /\ Success /\ surfaceTerrain > 0
  /\ Param(profil, <<"couts", "honoraires_pct">>, 5) = 6
  /\ response.bilan_promoteur.ventes.ca_total > 0
  /\ response.bilan_promoteur.couts.honoraires > 0
  /\ response.bilan_promoteur.couts.honoraires * 50
       <= response.bilan_promoteur.couts.construction * 3 + 50
  /\ response.bilan_promoteur.couts.honoraires * 50
       >= response.bilan_promoteur.couts.construction * 3 - 50

\* the ratio of row a is below / at most the ratio of row b
RatioBelow(a, b) == a.v * b.s < b.v * a.s
RatioAtMost(a, b) == a.v * b.s <= b.v * a.s

\* row x holds the k-th smallest ratio of rows
IsOrderStat(rows, x, k) ==
  /\ Cardinality({ i \in DOMAIN rows : RatioBelow(rows[i], x) }) <= k - 1
  /\ Cardinality({ i \in DOMAIN rows : RatioAtMost(rows[i], x) }) >= k

\* the ratios 100, 200, 300 (, 400) of the two reference cases, as rows
ExampleRows(n) == [ i \in 1..n |-> [ v |-> 100 * i, s |-> 1 ] ]

\* the median of the example of n ratios taken in the order p, as a
\* fraction
ExampleMedian(n, p) ==
  medianOf(sortRatios([ i \in 1..n |-> ExampleRows(n)[p[i]] ]))

\* C20: a resolved market estimate is the median of the surviving ratios
\* times the terrain area (to 1e-4 EUR), the median being the central
\* value of the ratios in ascending order for an odd count and the mean of
\* the two central values for an even count, whatever the order of the
\* rows; the median of 100, 200, 300 is 200 and of 100, 200, 300, 400 is
\* 250 in every order.
C20_Median ==
  (dvf # Unset /\ dvf.valeur_terrain # NULL) =>
    LET kept == keptRows(dvfData)
        n == Len(kept)
        median == dvf.meta.median
        diff == dvf.valeur_terrain * median[2]
                  - median[1] * surfaceTerrain * 100
    IN  /\ dvf.meta.samples = n
        /\ IF n % 2 = 1
           THEN \E i \in 1..n :
                  /\ IsOrderStat(kept, kept[i], (n + 1) \div 2)
                  /\ median[1] * kept[i].s = kept[i].v * median[2]
           ELSE \E i \in 1..n :
                  /\ IsOrderStat(kept, kept[i], n \div 2)
                  /\ \E j \in 1..n :
                       /\ IsOrderStat(kept, kept[j], n \div 2 + 1)
                       /\ median[1] * (2 * kept[i].s * kept[j].s)
                            = (kept[i].v * kept[j].s + kept[j].v * kept[i].s)
                                * median[2]
        /\ 2 * diff <= median[2] /\ -2 * diff <= median[2]
        /\ \A p \in Permutations(1..3) : ExampleMedian(3, p) = <<200, 1>>
        /\ \A p \in Permutations(1..4) : ExampleMedian(4, p) = <<500, 2>>

C20_Witness ==
  /\ Success /\ surfaceTerrain > 0
  /\ dvf # Unset /\ dvf.valeur_terrain # NULL /\ dvf.valeur_terrain > 0
  /\ LET kept == keptRows(dvfData)
         n == Len(kept)
     IN  /\ n % 2 = 0
         /\ \E i, j \in 1..n :
              /\ IsOrderStat(kept, kept[i], n \div 2)
              /\ IsOrderStat(kept, kept[j], n \div 2 + 1)
              /\ RatioBelow(kept[i], kept[j])
         /\ \E i, j \in 1..n : i < j /\ RatioBelow(kept[j], kept[i])

\* a comparable record counts toward the sample
Counts(row) ==
  /\ row.v # NULL /\ row.v > 0
  /\ row.s # NULL /\ row.s > 0
  /\ 50 * row.s <= row.v /\ row.v <= 20000 * row.s

\* C21: in an answered comparables query a record counts iff price > 0,
\* area > 0 and 50 <= price / area <= 20000; the estimate resolves iff at
\* least 30 records count; the records that do not count change neither
\* the count nor the median nor the estimate.
C21_SampleFilter ==
  (dvf # Unset /\ Answered("dvf", { "data" })) =>
    LET counted == SelectSeq(dvfData, Counts)
        n == Len(counted)
    IN  /\ dvf.meta.samples = n
        /\ dvf.valeur_terrain # NULL <=> n >= 30
        /\ n = 29 => dvf.meta.reason = "dvf_not_enough_samples"
        /\ n = 30 => dvf.meta.reason = "ok"
        /\ dvf = estimateFoncierFromDvfByCommune(
                   [ kind |-> "data", rows |-> counted ], surfaceTerrain)

C21_Witness ==
  /\ Success /\ surfaceTerrain > 0
  /\ Answered("dvf", { "data" })
  /\ Len(SelectSeq(dvfData, Counts)) = 30
  /\ Len(dvfData) > 30
  /\ \E i \in DOMAIN dvfData : dvfData[i].v # NULL /\ dvfData[i].v < 0
  /\ dvf.valeur_terrain # NULL /\ dvf.meta.samples = 30

\* result is base with override merged in: every key of either side, the
\* base's value for a key of the base alone, the override's value for a
\* key of the override alone or a conflicting leaf, the merge of the two
\* values when both are composite
RECURSIVE IsMerge(_, _, _)
IsMerge(base, override, result) ==
  /\ result.t = "obj"
  /\ DOMAIN result.f
       = (IF base.t = "obj" THEN DOMAIN base.f ELSE {}) \cup DOMAIN override.f
  /\ \A key \in DOMAIN result.f :
       IF key \notin DOMAIN override.f THEN result.f[key] = base.f[key]
       ELSE IF base.t = "obj" /\ key \in DOMAIN base.f
               /\ base.f[key].t = "obj" /\ override.f[key].t = "obj"
       THEN IsMerge(base.f[key], override.f[key], result.f[key])
       ELSE result.f[key] = override.f[key]

\* the params a resolved profile can start from: the built-in defaults,
\* or the params of a row of the table when the profile comes from it
ProfileBases ==
  IF profil.source = "default" THEN { defaults }
  ELSE { answer.params : answer \in { a \in ProfileAnswers : a.kind = "found" } }

\* C22: the params of a profile resolved with an override object are the
\* deep merge of the override onto the resolved base (keys of one side
\* kept, conflicting leaves from the override, composite sections merged
\* recursively), and merging the same override again changes nothing; a
\* profile resolved without override has the params of its base.
C22_DeepMerge ==
  profil # Unset =>
    LET override == body.financement.overrides
    IN  IF body.financement.present /\ override.t = "obj"
        THEN /\ \E base \in ProfileBases :
                  IsMerge(base, override, profil.params)
             /\ deepMerge(profil.params, override) = profil.params
        ELSE profil.params \in ProfileBases

C22_Witness ==
  /\ Success /\ surfaceTerrain > 0
  /\ profil.source = "db"
  /\ body.financement.overrides = FinancementOverrides
  /\ IsMerge(DbProfileParams, FinancementOverrides, profil.params)
  /\ Path(profil.params, <<"couts", "honoraires_pct">>) = Num(6)
  /\ Path(profil.params, <<"couts", "construction", "logement_m2">>)
       = Num(2500)
  /\ Path(profil.params, <<"objectif", "marge_cible_pct_sur_ca">>)
       = Num(15)

\* the scenario tags a request can carry
Scenarios == { projet.scenario : projet \in ProjetInputs }

\* the response the handler builds from the same request and the same
\* answers when the scenario tag of the project is tag
responseWithScenario(tag) ==
  LET ea == computeEtudeArchi(surfaceTerrain, finalRuleset,
                              [ body.projet EXCEPT !.scenario = tag ])
      rc == computeRevenusEtCoutsHorsFoncier(ea, profil)
      foncier == foncierEffectiveOf(body.foncier)
      pre == IF dvfRequested(foncier) THEN dvfStage(foncier, dvf)
             ELSE << foncier, NoDvfInfo >>
      st == foncierStage(rc, surfaceTerrain, profil, pre[1], pre[2])
  IN  responsePayload(finalRuleset, finalPluSource, ea, rc,
                      st.foncierEtMarge, st.dvfInfo)

RefCase ==
  /\ ref.stage # "none"
  /\ ref.terrain = 500
  /\ ref.ruleset = Ruleset(60, NULL, 150, NULL)
  /\ ref.profil.params = DbProfileParams

RefReached(stages) == ref.stage \in stages

\* the costs hors foncier (1e-2 EUR) of the run under the profile p
RefCouts(p) ==
  computeRevenusEtCoutsHorsFoncier(inWholeM2(ref.etudeArchi), p)
    .cout_total_hors_foncier_brut

\* the profile of the run with every fee rate but the honoraria at 0, and
\* with every fee rate at 0
RefOnlyHonoraires ==
  [ ref.profil EXCEPT !.params =
      deepMerge(@, Obj([ couts |->
        Obj([ frais_etudes_pct |-> Num(0), frais_commerciaux_pct |-> Num(0),
              frais_financiers_pct |-> Num(0), taxes_pct |-> Num(0) ]) ])) ]
RefNoFees ==
  [ RefOnlyHonoraires EXCEPT !.params =
      deepMerge(@, Obj([ couts |-> Obj([ honoraires_pct |-> Num(0) ]) ])) ]

\* C24: on the reference case the envelope is footprint 300 m2, 5 levels,
\* 255 m2 per level and 1275 m2 of floor area; the revenue is 7,650,000 EUR,
\* the construction cost 3,187,500 EUR and the honoraria 159,375 EUR; the
\* residual land value is revenue x 0.88 - (construction + fees), that is
\* 2,556,375 EUR with the other fee rates of the code (2, 3, 4 and 3 %).
C24_ReferenceCase ==
  RefCase =>
    /\ RefReached({ "etude_archi", "revenus_couts", "foncier" }) =>
          /\ ref.etudeArchi.emprise_autorisee_m2 = M2(300)
          /\ ref.etudeArchi.nb_niveaux_possibles = 5
          /\ ref.etudeArchi.surface_niveau_typique_m2 = M2(255)
          /\ ref.etudeArchi.sdp_totale_potentielle_m2 = M2(1275)
    /\ RefReached({ "revenus_couts", "foncier" }) =>
          /\ ref.revenusCouts.ca_total_brut = 7650000
          /\ RefCouts(RefNoFees) = 3187500 * 100
          /\ RefCouts(RefOnlyHonoraires) - RefCouts(RefNoFees) = 159375 * 100
          /\ ref.revenusCouts.cout_total_hors_foncier_brut = 4175625 * 100
    /\ RefReached({ "foncier" }) =>
          /\ ref.valeurTerrainResiduelle
               = 7650000 * 88
                   - ref.revenusCouts.cout_total_hors_foncier_brut
          /\ ref.valeurTerrainResiduelle = 2556375 * 100

C24_Witness ==
  /\ RefCase /\ RefReached({ "foncier" })
  /\ ref.etudeArchi.nb_niveaux_possibles = 5
  /\ ref.revenusCouts.ca_total_brut = 7650000
  /\ ref.valeurTerrainResiduelle > 0

\* a collaborator failed in a way the code does not recover from locally:
\* the zoning lookup answered an error, or a lookup the handler awaits
\* outside a try block of its own was rejected
NonCleanFailure ==
  \/ Answered("plu", { "error", "throws" })
  \/ Answered("cadastre", { "throws" })
  \/ Answered("profile", { "throws" })

AloneFromProfile(surface, ruleset, source, prof, rcv) ==
  LET ea == computeEtudeArchi(surface, ruleset, body.projet)
      rc == computeRevenusEtCoutsHorsFoncier(ea, prof)
      foncier == foncierEffectiveOf(body.foncier)
      pre == IF dvfRequested(foncier)
             THEN dvfStage(foncier,
                           estimateFoncierFromDvfByCommune(Head(rcv), surface))
             ELSE << foncier, NoDvfInfo >>
      st == foncierStage(rc, surface, prof, pre[1], pre[2])
  IN  responsePayload(ruleset, source, ea, rc, st.foncierEtMarge, st.dvfInfo)

\* ... from the zoning lookup on: rcv starts with its answer
AloneFromPlu(surface, rcv) ==
  LET plu == fetchPluRuleset(Head(rcv))
      ruleset == finalRulesetOf(plu.ruleset, body.plu_overrides)
      source == finalPluSourceOf(plu.hasMeta, body.plu_overrides)
  IN  IF plu.thrown THEN ErrorResponse(500, "erreur_interne")
      ELSE IF pluNotFound(plu.ruleset, body.plu_overrides)
      THEN ErrorResponse(404, "aucun_plu")
      ELSE IF ~profileLookupNeeded(body.financement)
      THEN AloneFromProfile(surface, ruleset, source,
                            fetchPromoteurProfileDefault(body.financement),
                            Tail(rcv))
      ELSE IF rcv[2].kind = "throws"
      THEN ErrorResponse(500, "erreur_interne")
      ELSE AloneFromProfile(surface, ruleset, source,
                            fetchPromoteurProfileFromDb(body.financement,
                                                        rcv[2]),
                            Tail(Tail(rcv)))

\* ... once the terrain surface is settled
AloneFromSurface(surface, rcv) ==
  IF surface = NULL THEN ErrorResponse(400, "surface_indeterminee")
  ELSE AloneFromPlu(surface, rcv)

\* the response of the invocation run alone: computed from its request and
\* from the answers it received, and from nothing else
RunAlone ==
  IF method = "OPTIONS" THEN [ kind |-> "preflight", status |-> 200 ]
  ELSE IF method # "POST" THEN ErrorResponse(405, "methode_non_autorisee")
  ELSE IF ~body.valid THEN ErrorResponse(500, "erreur_interne")
  ELSE IF requiredFieldsMissing(body)
  THEN ErrorResponse(400, "champs_requis_manquants")
  ELSE IF body.parcel.surface_terrain_m2 # NULL \/ body.parcel.parcel_id = ""
  THEN AloneFromSurface(body.parcel.surface_terrain_m2, received)
  ELSE IF received[1].kind = "throws"
  THEN ErrorResponse(500, "erreur_interne")
  ELSE AloneFromSurface(fetchSurfaceFromCadastre(received[1]),
                        Tail(received))

\* the kinds of the answers received are the ones recorded
ReceivedKinds == [ i \in DOMAIN received |-> received[i].kind ]

\* C26: with a second invocation interleaved at the awaits, the response of
\* an invocation is the one computed from its own request and from the
\* answers it received, that is the response of the same invocation run
\* alone; the other invocation, once it returned, keeps its response.
C26_NoStateAcrossInvocations ==
  parked # Alone =>
    /\ ReceivedKinds = answers
    /\ Done => response = RunAlone
    /\ ~Done => response = NoResponse

\* both invocations returned a success, each on its own terrain, and the
\* one that started first returned last
C26_Witness ==
  /\ parked # Alone
  /\ Success /\ parked.pc = "done" /\ parked.response.kind = "success"
  /\ body = LongBody /\ parked.body = ShortBody
  /\ Len(received) = 4
  /\ response.etude_archi.surface_terrain_m2
       # parked.response.etude_archi.surface_terrain_m2
  /\ response = RunAlone

\* the declared land value of the final land-value input, 1e-4 EUR
DeclaredValue == foncierEffective.valeur_terrain_saisi

\* C27: in the land-value detail of a success response (positive terrain
\* area) the delta is declared - residual (whole euros) and its percentage
\* (declared - residual) / residual (to 0.1 %), null exactly when the
\* residual is 0; without a declared value no delta is reported.
C27_DeltaDeclaredVsResidual ==
  (Success /\ surfaceTerrain > 0) =>
    LET detail == response.bilan_promoteur.foncier_detail
    IN  IF DeclaredValue = NULL
        THEN /\ detail.delta_vs_residuel = NULL
             /\ detail.delta_vs_residuel_pct = NULL
        ELSE /\ detail.delta_vs_residuel
                  = round(DeclaredValue - ResidualValue, 10000)
             /\ (detail.delta_vs_residuel_pct = NULL) <=> (ResidualValue = 0)
             /\ ResidualValue # 0 =>
                  detail.delta_vs_residuel_pct
                    = RoundMulDiv(DeclaredValue - ResidualValue, 1000,
                                  ResidualValue)

\* C28: after a market-to-residual fallback with a positive residual value
\* (positive terrain area), the reported margin ratio is the target margin
\* ratio and the band is "confortable", the residual value being rounded to
\* whole euros before it is substituted as the land cost.
C28_FallbackMeetsTarget ==
  (/\ Success /\ surfaceTerrain > 0
   /\ MarketRequested /\ MarketUnresolved
   /\ ResidualValue > 0) =>
    LET marge == response.bilan_promoteur.marge
    IN  /\ marge.taux_sur_ca = marge.marge_cible_pct_sur_ca
        /\ marge.appreciation = "confortable"

OverrideSupplied == hasOverridesOf(body.plu_overrides)

\* the rulesets the zoning lookup can have returned
LookedUpRulesets == { fetchPluRuleset(answer).ruleset : answer \in PluAnswers }

\* C29: when the request supplies an override ruleset, the ruleset of the
\* envelope is the override as a whole: the envelope is the one computed
\* from the override alone, whatever the zoning lookup returned, and a field
\* the override lacks takes the default constant (ratio 0.6, height 15 m
\* when the override carries only a footprint cap).
C29_OverrideReplacesRuleset ==
  (etudeArchi # Unset /\ OverrideSupplied) =>
    /\ finalRuleset = body.plu_overrides.ruleset
    /\ etudeArchi
         = computeEtudeArchi(surfaceTerrain, body.plu_overrides.ruleset,
                             body.projet)
    /\ \A looked \in LookedUpRulesets :
         computeEtudeArchi(surfaceTerrain,
                           finalRulesetOf(looked, body.plu_overrides),
                           body.projet) = etudeArchi
    /\ body.plu_overrides.ruleset = OverrideRuleset =>
         /\ etudeArchi.hauteur_max_m = DefaultHauteurMaxM
         /\ etudeArchi.nb_niveaux_possibles
              = DefaultHauteurMaxM \div hauteurNiveauM
         /\ etudeArchi.emprise_autorisee_m2
              = Min(M2(2), RoundQuot(surfaceTerrain * DefaultEmpriseRatio, 100))

\* the zoning lookup found a ruleset and the override carries only a cap
C29_Witness ==
  /\ Success /\ OverrideSupplied /\ surfaceTerrain > 0
  /\ Answered("plu", { "found" })
  /\ body.plu_overrides.ruleset = OverrideRuleset
  /\ etudeArchi.hauteur_max_m = DefaultHauteurMaxM
  /\ response.etude_archi.nb_niveaux_possibles = 5

\* C30: in a success response (positive terrain area) the reported cost
\* total is the sum of the reported cost lines (land, construction,
\* honoraria, studies, commercial, financing, taxes) and the reported
\* margin amount is the reported total revenue minus the reported cost
\* total.
C30_ReportedFiguresAddUp ==
  (Success /\ surfaceTerrain > 0) =>
    LET bilan == response.bilan_promoteur
        couts == bilan.couts
    IN  /\ couts.cout_total
             = couts.foncier + couts.construction + couts.honoraires
                 + couts.frais_etudes + couts.frais_commerciaux
                 + couts.frais_financiers + couts.taxes
        /\ bilan.marge.montant = bilan.ventes.ca_total - couts.cout_total

\* the response is the one the model's stages build from the state
ResponseFromState == Success => response = responseWithProfile(profil)

====
